---- MODULE Spec2Model ----
(***************************************************************************)
(* Model of the VSNotebooks backend: the kernel-message aggregator         *)
(* (ContentHelpers), the card collection and the Jupyter notebook codec     *)
(* (CardManager), and the glue of extension.ts that connects them.          *)
(*                                                                         *)
(* Representation.  A JavaScript value is a pair <<type, value>>; a string  *)
(* whose characters matter is a sequence of characters; an object is a      *)
(* function from its keys to values, so that `k in o` is k \in DOMAIN o.     *)
(* The character NM stands for the literal text "No module named ".         *)
(***************************************************************************)
EXTENDS Integers, Sequences, FiniteSets, TLC

\* ------------------------------------------------------------------ bounds
MaxMsgs == 3          \* kernel messages delivered in one behaviour
MaxCards == 3         \* cards in the collection after an import
MaxId == 4            \* value of the id counter after an import

\* ------------------------------------------------------- JavaScript values
Str(s) == <<"string", s>>
Num(n) == <<"number", n>>
Arr(a) == <<"array", a>>
Obj(o) == <<"object", o>>
Bool(b) == <<"boolean", b>>
Undefined == <<"undefined", <<>>>>
TypeOf(v) == v[1]
Val(v) == v[2]

EmptyObject == <<>>
Has(o, k) == k \in DOMAIN o
Get(o, k) == IF k \in DOMAIN o THEN o[k] ELSE Undefined
Put(o, k, v) == [x \in (DOMAIN o) \cup {k} |-> IF x = k THEN v ELSE o[x]]
Del(o, k) == [x \in (DOMAIN o) \ {k} |-> o[x]]

\* ----------------------------------------------------------------- strings
NL == "\n"
CR == "\r"
QUOTE == "'"
NM == "No module named "

RECURSIVE Join(_, _)
Join(parts, sep) ==
    IF parts = <<>> THEN <<>>
    ELSE IF Len(parts) = 1 THEN parts[1]
    ELSE parts[1] \o sep \o Join(Tail(parts), sep)

RECURSIVE Split(_, _)
\* String.prototype.split with a one-character separator
Split(s, sep) ==
    IF \A i \in 1..Len(s) : s[i] # sep THEN <<s>>
    ELSE LET i == CHOOSE j \in 1..Len(s) : s[j] = sep /\ \A l \in 1..(j-1) : s[l] # sep
         IN <<SubSeq(s, 1, i-1)>> \o Split(SubSeq(s, i+1, Len(s)), sep)

\* String.prototype.replace with a string pattern: the first occurrence only
replace(s, searchValue, replaceValue) ==
    LET n == Len(searchValue)
        found == {i \in 1..(Len(s) - n + 1) : SubSeq(s, i, i + n - 1) = searchValue}
        first == CHOOSE i \in found : \A j \in found : i <= j
    IN IF found = {} THEN s
       ELSE SubSeq(s, 1, first - 1) \o replaceValue \o SubSeq(s, first + n, Len(s))

\* String.prototype.replace with a global regular expression: every occurrence
RECURSIVE replaceAll(_, _, _)
replaceAll(s, searchValue, replaceValue) ==
    IF Len(s) < Len(searchValue) THEN s
    ELSE IF SubSeq(s, 1, Len(searchValue)) = searchValue
    THEN replaceValue \o replaceAll(SubSeq(s, Len(searchValue) + 1, Len(s)),
                                    searchValue, replaceValue)
    ELSE <<s[1]>> \o replaceAll(Tail(s), searchValue, replaceValue)

Map(f(_), s) == [i \in 1..Len(s) |-> f(s[i])]

RECURSIVE RemoveAll(_, _)
\* String.prototype.replace(/c/g, "")
RemoveAll(s, c) ==
    IF s = <<>> THEN <<>>
    ELSE (IF s[1] = c THEN <<>> ELSE <<s[1]>>) \o RemoveAll(Tail(s), c)

\* JSON.parse(JSON.stringify(o)) of an object: members whose value is
\* undefined are not serialised.
JSONObject(o) == [k \in {x \in DOMAIN o : TypeOf(o[x]) # "undefined"} |-> o[k]]
JSONClone(o) ==
    LET top == JSONObject(o)
    IN [k \in DOMAIN top |->
          IF k = "outputs" /\ TypeOf(top[k]) = "array"
          THEN Arr([i \in 1..Len(Val(top[k])) |-> JSONObject(Val(top[k])[i])])
          ELSE top[k]]

\* ------------------------------------------------------- kernel messages
\* A KernelMessage.IIOPubMessage: header.msg_type, metadata and content.
Msg(type, meta, content) == [msg_type |-> type, metadata |-> meta, content |-> content]

Chr(c) == <<c>>
MetaEmpty == Obj("{}")
MetaTagged == Obj("{tagged}")

MsgBusy == Msg("status", MetaEmpty, [execution_state |-> Str("busy")])
MsgIdle == Msg("status", MetaEmpty, [execution_state |-> Str("idle")])
MsgEcho == Msg("execute_input", MetaEmpty,
               [code |-> Str(<<"a", NL, "b">>), execution_count |-> Num(1)])
MsgEchoBad == Msg("execute_input", MetaEmpty,
                  [code |-> Num(7), execution_count |-> Num(1)])
MsgStreamA == Msg("stream", MetaEmpty, [name |-> Str("stdout"), text |-> Str(Chr("a"))])
MsgStreamB == Msg("stream", MetaEmpty, [name |-> Str("stdout"), text |-> Str(Chr("b"))])
MsgStreamArr == Msg("stream", MetaEmpty,
                    [name |-> Str("stdout"), text |-> Arr(<<Chr("a"), Chr("b")>>)])
MsgRichHtml == Msg("execute_result", MetaTagged,
                   [data |-> Obj(("text/plain" :> Str(Chr("p"))) @@ ("text/html" :> Str(Chr("h")))),
                    metadata |-> MetaEmpty, execution_count |-> Num(1)])
MsgRichCustom == Msg("display_data", MetaEmpty,
                     [data |-> Obj("application/x-custom" :> Str(Chr("c"))),
                      metadata |-> MetaEmpty, transient |-> Obj("{display_id}")])
MsgErrorModule == Msg("error", MetaEmpty,
                      [ename |-> Str("ModuleNotFoundError"),
                       evalue |-> Str(<<NM, QUOTE, "f", "o", QUOTE>>),
                       traceback |-> Arr(<<Chr("t"), Chr("u")>>)])
MsgErrorPlain == Msg("error", MetaEmpty,
                     [ename |-> Str("NameError"),
                      evalue |-> Str(<<"x">>),
                      traceback |-> Arr(<<Chr("t"), Chr("u")>>)])
MsgErrorBad == Msg("error", MetaEmpty,
                   [ename |-> Str("E"), evalue |-> Num(7),
                    traceback |-> Arr(<<Chr("t")>>)])
MsgClear == Msg("clear_output", MetaEmpty, [wait |-> Bool(FALSE)])

\* a content that matches the stream, the rich-result and the error test at once
MsgMixed == Msg("stream", MetaEmpty,
                [name |-> Str("stdout"), text |-> Str(Chr("m")),
                 data |-> Obj("text/plain" :> Str(Chr("p"))),
                 ename |-> Str("E"), evalue |-> Str(<<"x">>),
                 traceback |-> Arr(<<Chr("t")>>)])
MsgEchoR == Msg("execute_input", MetaEmpty,
                [code |-> Str(<<"r">>), execution_count |-> Num(1)])

Messages == {MsgBusy, MsgIdle, MsgEcho, MsgEchoBad, MsgStreamA, MsgStreamB, MsgStreamArr,
             MsgRichHtml, MsgRichCustom, MsgErrorModule, MsgErrorPlain, MsgErrorBad,
             MsgClear, MsgMixed}
IrMessages == {MsgIdle, MsgEchoR, MsgStreamB}

Kernels == {"python3", "ir"}

\* the deliveries of the model: a message and the kernel whose onIOPub got it
Deliveries == (Messages \X {"python3"}) \cup (IrMessages \X {"ir"})

\* ------------------------------------------------- ContentHelpers (statics)
VARIABLES sourceTmp, contentTmp, id, jupyterData, currentKernel,
          heap      \* the addresses of the array held by contentTmp and of the
                    \* object held by jupyterData, and the last address allocated

\* the static fields of ContentHelpers as one value
CH == [sourceTmp |-> sourceTmp, contentTmp |-> contentTmp, id |-> id,
       jupyterData |-> jupyterData, currentKernel |-> currentKernel, heap |-> heap]

\* the array and the object the static initialisers create
InitialHeap == [contentTmp |-> 1, jupyterData |-> 2, allocated |-> 2]

\* the addresses of a card's outputs array and jupyterData object when the
\* aggregator holds no reference to them
NoAddress == [outputs |-> 0, jupyterData |-> 0]

CardOutput(type, output) == [type |-> type, output |-> output]

Card(cid, title, sourceCode, outputs, jdata, kernel) ==
    [id |-> cid, title |-> title, sourceCode |-> sourceCode, outputs |-> outputs,
     jupyterData |-> jdata, kernel |-> kernel, isCustomMarkdown |-> FALSE,
     at |-> NoAddress]

\* what cards[index] is when the array has no element at index
undefinedCard == [undefined |-> TRUE]
IsCard(c) == "id" \in DOMAIN c

makeCardTitle(cid) == <<"Card ", cid>>

validateData(inputData, field) ==
    Has(inputData, field) /\ TypeOf(inputData[field]) # "undefined"

validDataTypesList ==
    <<"application/vnd.jupyter", "application/vnd.jupyter.cells",
      "application/vnd.jupyter.dragindex", "application/x-ipynb+json",
      "application/geo+json", "application/vnd.plotly.v1+json",
      "application/vdom.v1+json", "text/html", "image/svg+xml",
      "image/png", "image/jpeg", "text/markdown", "application/pdf",
      "text/latex", "application/json", "text/plain">>

\* the classifier taking the last valid type instead of the first
chooseTypeFromComplexData_last(data) ==
    LET validDataTypes == SelectSeq(validDataTypesList, LAMBDA t : validateData(data, t))
    IN IF validDataTypes = <<>> THEN Undefined
       ELSE Str(validDataTypes[Len(validDataTypes)])

chooseTypeFromComplexData(data) ==
    LET validDataTypes == SelectSeq(validDataTypesList, LAMBDA t : validateData(data, t))
    IN IF validDataTypes = <<>> THEN Undefined ELSE Str(validDataTypes[1])

interpretRich(data) ==
    LET chosenType == chooseTypeFromComplexData(data)
        key == IF TypeOf(chosenType) = "undefined" THEN "undefined" ELSE Val(chosenType)
    IN CardOutput(chosenType, Get(data, key))

\* evalue.match(/No module named \'(.+?)\'/): the candidate matches <<i, k>>
\* (start of the literal, length of the group); the regular expression engine
\* returns the leftmost start and, the group being lazy, its shortest group.
moduleMatches(evalue) ==
    {m \in (1..Len(evalue)) \X (1..Len(evalue)) :
        /\ m[1] + 2 + m[2] <= Len(evalue)
        /\ evalue[m[1]] = NM
        /\ evalue[m[1] + 1] = QUOTE
        /\ \A j \in (m[1] + 2)..(m[1] + 1 + m[2]) : evalue[j] # NL
        /\ evalue[m[1] + 2 + m[2]] = QUOTE}

moduleMatch(evalue) ==
    LET ms == moduleMatches(evalue)
        m == CHOOSE x \in ms : \A y \in ms : x[1] < y[1] \/ (x[1] = y[1] /\ x[2] <= y[2])
    IN IF ms = {} THEN <<>>
       ELSE <<SubSeq(evalue, m[1] + 2, m[1] + 1 + m[2])>>

\* getMissingModule that does not strip the quote characters
getMissingModule_keepsQuotes(evalue) ==
    LET match == moduleMatch(evalue)
    IN IF match = <<>> THEN <<>>
       ELSE <<[shown |-> match[1], module |-> match[1]]>>

\* The information messages shown by getMissingModule (none or one), each with
\* the module its `then` callback installs when the user picks "Install".
getMissingModule(evalue) ==
    LET match == moduleMatch(evalue)
    IN IF match = <<>> THEN <<>>
       ELSE <<[shown |-> match[1], module |-> RemoveAll(match[1], QUOTE)]>>

\* The text sent to the "pip" terminal (none or one).
installMissingModule(module) ==
    IF module # <<>> THEN <<module>> ELSE <<>>

\* makeCard without the defaults of lines 195-198
makeCard_noDefaults(ch) ==
    [card |-> [Card(ch.id, makeCardTitle(ch.id), Str(ch.sourceTmp), ch.contentTmp,
                    JSONClone(ch.jupyterData), ch.currentKernel)
                 EXCEPT !.at = [outputs |-> ch.heap.contentTmp,
                                jupyterData |-> ch.heap.allocated + 1]],
     ch |-> [ch EXCEPT !.contentTmp = <<>>, !.jupyterData = EmptyObject, !.id = ch.id + 1,
                       !.heap = [contentTmp |-> ch.heap.allocated + 2,
                                 jupyterData |-> ch.heap.allocated + 3,
                                 allocated |-> ch.heap.allocated + 3]]]

\* makeCard that empties the array of contentTmp in place (length = 0)
\* instead of assigning a new array
makeCard_emptiesInPlace(ch) ==
    LET jd == IF ~Has(ch.jupyterData, "metadata") /\ ~Has(ch.jupyterData, "outputs")
              THEN Put(Put(ch.jupyterData, "metadata", MetaEmpty), "outputs", Arr(<<>>))
              ELSE ch.jupyterData
    IN [card |-> [Card(ch.id, makeCardTitle(ch.id), Str(ch.sourceTmp), ch.contentTmp,
                       JSONClone(jd), ch.currentKernel)
                    EXCEPT !.at = [outputs |-> ch.heap.contentTmp,
                                   jupyterData |-> ch.heap.allocated + 1]],
        ch |-> [ch EXCEPT !.contentTmp = <<>>, !.jupyterData = EmptyObject, !.id = ch.id + 1,
                          !.heap = [contentTmp |-> ch.heap.contentTmp,
                                    jupyterData |-> ch.heap.allocated + 2,
                                    allocated |-> ch.heap.allocated + 2]]]

\* makeCard that forgets to give jupyterData a new object
makeCard_keepsSnapshot(ch) ==
    LET jd == IF ~Has(ch.jupyterData, "metadata") /\ ~Has(ch.jupyterData, "outputs")
              THEN Put(Put(ch.jupyterData, "metadata", MetaEmpty), "outputs", Arr(<<>>))
              ELSE ch.jupyterData
    IN [card |-> [Card(ch.id, makeCardTitle(ch.id), Str(ch.sourceTmp), ch.contentTmp,
                       JSONClone(jd), ch.currentKernel)
                    EXCEPT !.at = [outputs |-> ch.heap.contentTmp,
                                   jupyterData |-> ch.heap.allocated + 1]],
        ch |-> [ch EXCEPT !.contentTmp = <<>>, !.jupyterData = jd, !.id = ch.id + 1,
                          !.heap = [contentTmp |-> ch.heap.allocated + 2,
                                    jupyterData |-> ch.heap.jupyterData,
                                    allocated |-> ch.heap.allocated + 2]]]

\* makeCard that forgets to empty contentTmp
makeCard_keepsOutputs(ch) ==
    LET jd == IF ~Has(ch.jupyterData, "metadata") /\ ~Has(ch.jupyterData, "outputs")
              THEN Put(Put(ch.jupyterData, "metadata", MetaEmpty), "outputs", Arr(<<>>))
              ELSE ch.jupyterData
    IN [card |-> [Card(ch.id, makeCardTitle(ch.id), Str(ch.sourceTmp), ch.contentTmp,
                       JSONClone(jd), ch.currentKernel)
                    EXCEPT !.at = [outputs |-> ch.heap.contentTmp,
                                   jupyterData |-> ch.heap.allocated + 1]],
        ch |-> [ch EXCEPT !.jupyterData = EmptyObject, !.id = ch.id + 1,
                          !.heap = [contentTmp |-> ch.heap.contentTmp,
                                    jupyterData |-> ch.heap.allocated + 2,
                                    allocated |-> ch.heap.allocated + 2]]]

\* The card holds the array of contentTmp itself and a copy (line 206) of
\* jupyterData; lines 212-213 then give both static fields a new array and a
\* new object.
makeCard(ch) ==
    LET jd == IF ~Has(ch.jupyterData, "metadata") /\ ~Has(ch.jupyterData, "outputs")
              THEN Put(Put(ch.jupyterData, "metadata", MetaEmpty), "outputs", Arr(<<>>))
              ELSE ch.jupyterData
    IN [card |-> [Card(ch.id, makeCardTitle(ch.id), Str(ch.sourceTmp), ch.contentTmp,
                       JSONClone(jd), ch.currentKernel)
                    EXCEPT !.at = [outputs |-> ch.heap.contentTmp,
                                   jupyterData |-> ch.heap.allocated + 1]],
        ch |-> [ch EXCEPT !.contentTmp = <<>>, !.jupyterData = EmptyObject, !.id = ch.id + 1,
                          !.heap = [contentTmp |-> ch.heap.allocated + 2,
                                    jupyterData |-> ch.heap.allocated + 3,
                                    allocated |-> ch.heap.allocated + 3]]]

\* What one call of processContent does: the statics afterwards, the events
\* fired (by kind, and all of them in the order they are fired), the prompts
\* shown, the branches taken and whether it threw.
Effect(ch) == [ch |-> ch, cardReady |-> <<>>, statusChanged |-> <<>>, prompts |-> <<>>,
               rules |-> {}, threw |-> FALSE, events |-> <<>>]

\* _onCardReady.fire(card) and _onStatusChanged.fire(status)
CardReadyEvent(card) == [event |-> "cardReady", id |-> card.id]
StatusChangedEvent(status) == [event |-> "statusChanged", status |-> status]

\* statusBranch that makes a card on every status
statusBranch_anyStatus(ch, msg) ==
    LET status == msg.content["execution_state"]
        made == makeCard(ch)
    IN [Effect(made.ch) EXCEPT !.cardReady = <<made.card>>,
                               !.statusChanged = IF TypeOf(status) = "string"
                                                 THEN <<Val(status)>> ELSE <<>>,
                               !.events = <<CardReadyEvent(made.card)>> \o
                                          (IF TypeOf(status) = "string"
                                           THEN <<StatusChangedEvent(Val(status))>>
                                           ELSE <<>>),
                               !.rules = {"status"}]

\* statusBranch that reports the status before it makes the card
statusBranch_statusFirst(ch, msg) ==
    LET status == msg.content["execution_state"]
        made == makeCard(ch)
        e == IF status = Str("idle")
             THEN [Effect(made.ch) EXCEPT !.cardReady = <<made.card>>,
                                          !.events = <<CardReadyEvent(made.card)>>]
             ELSE Effect(ch)
    IN [e EXCEPT !.statusChanged = IF TypeOf(status) = "string" THEN <<Val(status)>> ELSE <<>>,
                 !.events = (IF TypeOf(status) = "string"
                             THEN <<StatusChangedEvent(Val(status))>> ELSE <<>>) \o @,
                 !.rules = {"status"}]

\* lines 82-89
statusBranch(ch, msg) ==
    LET status == msg.content["execution_state"]
        made == makeCard(ch)
        e == IF status = Str("idle")
             THEN [Effect(made.ch) EXCEPT !.cardReady = <<made.card>>,
                                          !.events = <<CardReadyEvent(made.card)>>]
             ELSE Effect(ch)
    IN [e EXCEPT !.statusChanged = IF TypeOf(status) = "string" THEN <<Val(status)>> ELSE <<>>,
                 !.events = @ \o (IF TypeOf(status) = "string"
                                  THEN <<StatusChangedEvent(Val(status))>> ELSE <<>>),
                 !.rules = {"status"}]

\* lines 91-98; split of a value that is no string throws a TypeError
codeBranch(ch, msg) ==
    LET code == msg.content["code"]
        ch1 == IF TypeOf(code) = "string" THEN [ch EXCEPT !.sourceTmp = Val(code)] ELSE ch
        jd1 == Put(Put(ch1.jupyterData, "cell_type", Str("code")),
                   "execution_count", Get(msg.content, "execution_count"))
    IN IF TypeOf(code) = "string"
       THEN [Effect([ch1 EXCEPT !.jupyterData =
                        Put(jd1, "source",
                            Arr(Map(LAMBDA el : el \o <<NL>>, Split(Val(code), NL))))])
                EXCEPT !.rules = {"echo"}]
       ELSE [Effect([ch1 EXCEPT !.jupyterData = jd1])
                EXCEPT !.rules = {"echo"}, !.threw = TRUE]

\* lines 100-104
nameBranch(ch, msg) ==
    LET output == Get(msg.content, "text")
    IN [Effect(IF TypeOf(output) = "string"
               THEN [ch EXCEPT !.contentTmp = Append(@, CardOutput(Str("stdout"), output))]
               ELSE ch)
          EXCEPT !.rules = {"stream"}]

\* lines 106-108
dataBranch(ch, msg) ==
    LET data == msg.content["data"]
    IN [Effect([ch EXCEPT !.contentTmp = Append(@, interpretRich(Val(data)))])
          EXCEPT !.rules = {"rich"}]

\* errorBranch that records the error only when no module is missing
errorBranch_blocks(ch, msg) ==
    LET evalue == msg.content["evalue"]
        traceback == msg.content["traceback"]
    IN IF TypeOf(evalue) # "string" \/ TypeOf(traceback) # "array"
       THEN [Effect(ch) EXCEPT !.rules = {"error"}, !.threw = TRUE]
       ELSE IF getMissingModule(Val(evalue)) # <<>>
       THEN [Effect(ch) EXCEPT !.rules = {"error"}, !.prompts = getMissingModule(Val(evalue))]
       ELSE [Effect([ch EXCEPT !.contentTmp =
                        Append(@, CardOutput(Str("error"),
                                             Str(Join(Val(traceback), <<NL>>))))])
               EXCEPT !.rules = {"error"}]

\* lines 110-115; match of a value that is no string, and join of a value
\* that is no array, throw a TypeError
errorBranch(ch, msg) ==
    LET evalue == msg.content["evalue"]
        traceback == msg.content["traceback"]
    IN IF TypeOf(evalue) # "string"
       THEN [Effect(ch) EXCEPT !.rules = {"error"}, !.threw = TRUE]
       ELSE IF TypeOf(traceback) # "array"
       THEN [Effect(ch) EXCEPT !.rules = {"error"}, !.threw = TRUE,
                               !.prompts = getMissingModule(Val(evalue))]
       ELSE [Effect([ch EXCEPT !.contentTmp =
                        Append(@, CardOutput(Str("error"),
                                             Str(Join(Val(traceback), <<NL>>))))])
               EXCEPT !.rules = {"error"}, !.prompts = getMissingModule(Val(evalue))]

\* lines 117-130
jupyterDataBranch(ch, msg) ==
    LET tagged == Put(msg.content, "output_type", Str(msg.msg_type))
        output == IF Has(tagged, "transient") THEN Del(tagged, "transient") ELSE tagged
        jd1 == Put(ch.jupyterData, "metadata", msg.metadata)
    IN [ch EXCEPT !.jupyterData =
           IF Has(jd1, "outputs")
           THEN Put(jd1, "outputs", Arr(Append(Val(jd1["outputs"]), output)))
           ELSE Put(jd1, "outputs", Arr(<<output>>))]

\* the if / else-if chain of lines 82-115
firstMatch(ch, msg) ==
    IF Has(msg.content, "execution_state") THEN statusBranch(ch, msg)
    ELSE IF Has(msg.content, "code") THEN codeBranch(ch, msg)
    ELSE IF Has(msg.content, "name") THEN nameBranch(ch, msg)
    ELSE IF Has(msg.content, "data") THEN dataBranch(ch, msg)
    ELSE IF \A value \in {"ename", "evalue", "traceback"} : Has(msg.content, value)
         THEN errorBranch(ch, msg)
    ELSE Effect(ch)

\* the last block running only when no earlier branch matched
thenJupyterData_exclusive(first, msg) ==
    IF first.rules = {}
    THEN [first EXCEPT !.ch = jupyterDataBranch(first.ch, msg),
                       !.rules = @ \cup {"jupyterData"}]
    ELSE first

\* the condition of line 117 after the chain, unless the chain threw
thenJupyterData(first, msg) ==
    IF ~first.threw /\ ~Has(msg.content, "execution_state") /\ ~Has(msg.content, "code")
    THEN [first EXCEPT !.ch = jupyterDataBranch(first.ch, msg),
                       !.rules = @ \cup {"jupyterData"}]
    ELSE first

processContent(ch, msg) == thenJupyterData(firstMatch(ch, msg), msg)

\* line 73: currentKernel is assigned after processContent returned
thenCurrentKernel(e, kernelName) ==
    IF e.threw THEN e
    ELSE [e EXCEPT !.ch = [e.ch EXCEPT !.currentKernel = Str(kernelName)]]

interpretOutput(ch, msg, kernelName) ==
    thenCurrentKernel(processContent(ch, msg), kernelName)

\* ----------------------------------------------------------- CardManager
Null == <<"null", <<>>>>

\* assignId that increments before it reads (++id)
assignId_preIncrement(ch) == [id |-> ch.id + 1, ch |-> [ch EXCEPT !.id = ch.id + 1]]

assignId(ch) == [id |-> ch.id, ch |-> [ch EXCEPT !.id = ch.id + 1]]

metadataPy ==
    [kernelspec |-> Obj([display_name |-> Str("Python 3"), language |-> Str("python"),
                         name |-> Str("python3")]),
     language_info |-> Obj("{python 3.6.4}")]

metadataR ==
    [kernelspec |-> Obj([display_name |-> Str("R"), language |-> Str("R"),
                         name |-> Str("ir")]),
     language_info |-> Obj("{R 3.5.0}")]

\* the text written by JSON.stringify(jupyterFileData), as the value that
\* JSON.parse gives back for it
JSONDocument(data) ==
    [data EXCEPT !.cells = Arr([i \in 1..Len(Val(data.cells)) |->
                                   JSONClone(Val(data.cells)[i])])]

\* What the export meets outside the program: whether a workspace folder is
\* open, and the files of that folder that fs.writeFileSync cannot write.
Workspace(open, unwritable) == [workspaceFolders |-> open, unwritable |-> unwritable]
WorkspaceOpen == Workspace(TRUE, {})

NoWorkspaceError == "You must have a workspace open to export the files"
SaveError == "Unable to save exported Jupyter file"

\* the state of one exportToJupyter call: the files of the folder, the
\* "Exported ... cards" notifications shown, and the error thrown if any
ExportState(fs) == [files |-> fs, notifications |-> <<>>, threw |-> <<>>]

\* path.join(fullPath, name) and path.basename of it
pathJoin(fullPath, name) == [dir |-> fullPath, base |-> name]
basename(filePath) == filePath.base

\* writeToFile that shows the notification before it writes the file
writeToFile_notifiesBeforeWrite(env, out, jupyterFileData, kernelName, fileName) ==
    IF ~env.workspaceFolders THEN [out EXCEPT !.threw = <<NoWorkspaceError>>]
    ELSE LET filePath == IF fileName = Null
                         THEN pathJoin("fullPath", <<"output_", kernelName, ".ipynb">>)
                         ELSE pathJoin("fullPath", Val(fileName))
             notified == [out EXCEPT
                            !.notifications =
                                Append(out.notifications,
                                       [kernelName |-> kernelName, filePath |-> filePath,
                                        openNotebook |-> basename(filePath)])]
         IN IF Len(Val(jupyterFileData.cells)) > 0
            THEN IF basename(filePath) \in env.unwritable
                 THEN [notified EXCEPT !.threw = <<SaveError>>]
                 ELSE [notified EXCEPT
                         !.files = Put(out.files, basename(filePath),
                                       JSONDocument(jupyterFileData))]
            ELSE out

\* writeToFile that writes a document whatever the number of its cells
writeToFile_writesEmpty(env, out, jupyterFileData, kernelName, fileName) ==
    IF ~env.workspaceFolders THEN [out EXCEPT !.threw = <<NoWorkspaceError>>]
    ELSE LET filePath == IF fileName = Null
                         THEN pathJoin("fullPath", <<"output_", kernelName, ".ipynb">>)
                         ELSE pathJoin("fullPath", Val(fileName))
         IN IF basename(filePath) \in env.unwritable
            THEN [out EXCEPT !.threw = <<SaveError>>]
            ELSE [out EXCEPT
                    !.files = Put(out.files, basename(filePath),
                                  JSONDocument(jupyterFileData)),
                    !.notifications =
                        Append(out.notifications,
                               [kernelName |-> kernelName, filePath |-> filePath,
                                openNotebook |-> basename(filePath)])]

\* lines 413-439; the files of the workspace folder are kept by base name
writeToFile(env, out, jupyterFileData, kernelName, fileName) ==
    IF ~env.workspaceFolders THEN [out EXCEPT !.threw = <<NoWorkspaceError>>]
    ELSE LET filePath == IF fileName = Null
                         THEN pathJoin("fullPath", <<"output_", kernelName, ".ipynb">>)
                         ELSE pathJoin("fullPath", Val(fileName))
         IN IF Len(Val(jupyterFileData.cells)) > 0
            THEN IF basename(filePath) \in env.unwritable
                 THEN [out EXCEPT !.threw = <<SaveError>>]
                 ELSE [out EXCEPT
                         !.files = Put(out.files, basename(filePath),
                                       JSONDocument(jupyterFileData)),
                         !.notifications =
                             Append(out.notifications,
                                    [kernelName |-> kernelName, filePath |-> filePath,
                                     openNotebook |-> basename(filePath)])]
            ELSE out

\* cardsToExport that takes every card whatever the selection
cardsToExport_ignoresSelection(cs, indexes) == cs

\* lines 80-86
cardsToExport(cs, indexes) ==
    IF indexes # Null
    THEN [i \in 1..Len(Val(indexes)) |->
             IF Val(indexes)[i] \in 1..Len(cs) THEN cs[Val(indexes)[i]] ELSE undefinedCard]
    ELSE cs

\* the selected cards of one kernel, in selection order
cardsOfKernel(cs, indexes, kernel) ==
    SelectSeq(cardsToExport(cs, indexes), LAMBDA card : card.kernel = Str(kernel))

\* lines 88-106: the two documents built from the selected cards
exportDocuments(cs, indexes) ==
    LET cellsOf(kernel) ==
            Map(LAMBDA card : card.jupyterData, cardsOfKernel(cs, indexes, kernel))
    IN [pythonData |-> [cells |-> Arr(cellsOf("python3")), metadata |-> Obj(metadataPy),
                        nbformat |-> Num(4), nbformat_minor |-> Num(2)],
        rData |-> [cells |-> Arr(cellsOf("ir")), metadata |-> Obj(metadataR),
                   nbformat |-> Num(4), nbformat_minor |-> Num(2)]]

\* lines 79-117: the files afterwards, the notifications and the error
\* messages shown. An element of cardsToExport that is undefined makes the
\* first filter raise a TypeError on card.kernel, before the try block.
exportToJupyter(env, fs, cs, indexes, fileName) ==
    IF \E i \in 1..Len(cardsToExport(cs, indexes)) : ~IsCard(cardsToExport(cs, indexes)[i])
    THEN [files |-> fs, notifications |-> <<>>, errors |-> <<>>, pythonData |-> Undefined,
          rData |-> Undefined, unhandled |-> TRUE]
    ELSE LET docs == exportDocuments(cs, indexes)
             first == writeToFile(env, ExportState(fs), docs.pythonData, "python3", fileName)
             second == IF first.threw # <<>> THEN first
                       ELSE writeToFile(env, first, docs.rData, "r", fileName)
         IN [files |-> second.files, notifications |-> second.notifications,
             errors |-> second.threw, pythonData |-> docs.pythonData,
             rData |-> docs.rData, unhandled |-> FALSE]

\* processJupyterOutput that tests traceback before name
processJupyterOutput_tracebackFirst(output) ==
    IF Has(output, "traceback")
    THEN IF TypeOf(output["traceback"]) = "array"
         THEN [threw |-> FALSE,
               output |-> CardOutput(Str("error"),
                                     Str(Join(Val(output["traceback"]), <<NL>>)))]
         ELSE [threw |-> TRUE]
    ELSE IF Has(output, "name")
    THEN LET text == Get(output, "text")
         IN IF TypeOf(text) = "string"
            THEN [threw |-> FALSE, output |-> CardOutput(Str("stdout"), text)]
            ELSE IF TypeOf(text) = "array"
            THEN [threw |-> FALSE,
                  output |-> CardOutput(Str("stdout"), Str(Join(Val(text), <<>>)))]
            ELSE [threw |-> TRUE]
    ELSE IF TypeOf(Get(output, "data")) \in {"undefined", "null"}
         THEN [threw |-> TRUE]
    ELSE IF TypeOf(output["data"]) = "object"
         THEN [threw |-> FALSE, output |-> interpretRich(Val(output["data"]))]
         ELSE [threw |-> FALSE, output |-> CardOutput(Undefined, Undefined)]

\* One output of an imported cell (lines 362-388).  Reading text.join of a
\* text that is missing, and data[field] of a data that is missing, throws.
processJupyterOutput(output) ==
    IF Has(output, "name")
    THEN LET text == Get(output, "text")
         IN IF TypeOf(text) = "string"
            THEN [threw |-> FALSE, output |-> CardOutput(Str("stdout"), text)]
            ELSE IF TypeOf(text) = "array"
            THEN [threw |-> FALSE,
                  output |-> CardOutput(Str("stdout"), Str(Join(Val(text), <<>>)))]
            ELSE [threw |-> TRUE]
    ELSE IF Has(output, "traceback")
    THEN IF TypeOf(output["traceback"]) = "array"
         THEN [threw |-> FALSE,
               output |-> CardOutput(Str("error"),
                                     Str(Join(Val(output["traceback"]), <<NL>>)))]
         ELSE [threw |-> TRUE]
    ELSE IF TypeOf(Get(output, "data")) \in {"undefined", "null"}
         THEN [threw |-> TRUE]
    ELSE IF TypeOf(output["data"]) = "object"
         THEN [threw |-> FALSE, output |-> interpretRich(Val(output["data"]))]
         ELSE [threw |-> FALSE, output |-> CardOutput(Undefined, Undefined)]

processJupyterOutputs(outputs) ==
    IF TypeOf(outputs) # "array" THEN [threw |-> FALSE, outputs |-> <<>>]
    ELSE LET each == Map(processJupyterOutput, Val(outputs))
         IN IF \E i \in 1..Len(each) : each[i].threw THEN [threw |-> TRUE]
            ELSE [threw |-> FALSE, outputs |-> Map(LAMBDA r : r.output, each)]

\* kernelspecName that reads kernelspec.language
kernelspecName_language(jsonContent) ==
    IF TypeOf(Get(jsonContent, "metadata")) # "object" THEN [threw |-> TRUE]
    ELSE IF TypeOf(Get(Val(jsonContent["metadata"]), "kernelspec")) # "object"
    THEN [threw |-> TRUE]
    ELSE [threw |-> FALSE,
          name |-> Get(Val(Val(jsonContent["metadata"])["kernelspec"]), "language")]

\* jsonContent.metadata.kernelspec.name; reading through a missing member throws
kernelspecName(jsonContent) ==
    IF TypeOf(Get(jsonContent, "metadata")) # "object" THEN [threw |-> TRUE]
    ELSE IF TypeOf(Get(Val(jsonContent["metadata"]), "kernelspec")) # "object"
    THEN [threw |-> TRUE]
    ELSE [threw |-> FALSE,
          name |-> Get(Val(Val(jsonContent["metadata"])["kernelspec"]), "name")]

RECURSIVE importCells_emitsAsItGoes(_, _, _, _)
\* importCells that hands each card to addNewCard as soon as it is built
importCells_emitsAsItGoes(ch, jsonContent, at, made) ==
    LET cells == Val(jsonContent["cells"])
    IN IF at > Len(cells) THEN [threw |-> FALSE, ch |-> ch, cards |-> made]
       ELSE LET cell == cells[at]
                raw == Get(cell, "source")
                source == IF TypeOf(raw) = "array" THEN Str(Join(Val(raw), <<>>)) ELSE raw
                assigned == assignId(ch)
                outputs == processJupyterOutputs(Get(cell, "outputs"))
                kernel == kernelspecName(jsonContent)
            IN IF outputs.threw \/ kernel.threw
               THEN [threw |-> TRUE, ch |-> assigned.ch, cards |-> made]
               ELSE importCells_emitsAsItGoes(assigned.ch, jsonContent, at + 1,
                        Append(made,
                               [Card(assigned.id, makeCardTitle(assigned.id), source,
                                     outputs.outputs, cell, kernel.name)
                                  EXCEPT !.isCustomMarkdown =
                                             (Get(cell, "cell_type") = Str("markdown"))]))

RECURSIVE importCells(_, _, _, _)
\* The first map of importJupyter (lines 284-306) from the cell `at` on: every
\* cell takes an id before its outputs are converted; a throw ends the map.
importCells(ch, jsonContent, at, made) ==
    LET cells == Val(jsonContent["cells"])
    IN IF at > Len(cells) THEN [threw |-> FALSE, ch |-> ch, cards |-> made]
       ELSE LET cell == cells[at]
                raw == Get(cell, "source")
                source == IF TypeOf(raw) = "array" THEN Str(Join(Val(raw), <<>>)) ELSE raw
                assigned == assignId(ch)
                outputs == processJupyterOutputs(Get(cell, "outputs"))
                kernel == kernelspecName(jsonContent)
            IN IF outputs.threw \/ kernel.threw
               THEN [threw |-> TRUE, ch |-> assigned.ch, cards |-> <<>>]
               ELSE importCells(assigned.ch, jsonContent, at + 1,
                        Append(made,
                               [Card(assigned.id, makeCardTitle(assigned.id), source,
                                     outputs.outputs, cell, kernel.name)
                                  EXCEPT !.isCustomMarkdown =
                                             (Get(cell, "cell_type") = Str("markdown"))]))

\* lines 278-307 and 348-350: the cards handed to addNewCard, or the throw
\* that the catch turns into the "unknown format" message
importJupyter(ch, jsonContent) ==
    IF TypeOf(Get(jsonContent, "cells")) # "array"
    THEN [threw |-> TRUE, ch |-> ch, cards |-> <<>>]
    ELSE LET made == importCells(ch, jsonContent, 1, <<>>)
         IN IF ~made.threw /\ kernelspecName(jsonContent).threw
            THEN [made EXCEPT !.threw = TRUE]     \* the switch of line 310
            ELSE made

\* lines 309-316: the language of the text document
languageOf(jsonContent) ==
    LET name == kernelspecName(jsonContent).name
    IN IF name = Str("python3") THEN Str(<<"python">>)
       ELSE IF name = Str("ir") THEN Str(<<"r">>)
       ELSE Undefined

\* lines 324-339: the text of one cell, whose source is an array of strings
\* or a string
cellSource(cell) ==
    LET source == Get(cell, "source")
        markdown == Get(cell, "cell_type") = Str("markdown")
    IN IF TypeOf(source) = "array"
       THEN IF markdown
            THEN Join(Map(LAMBDA el : <<"#", " ">> \o el, Val(source)), <<>>)
            ELSE Join(Val(source), <<>>)
       ELSE IF markdown THEN <<"#", " ">> \o Val(source)
            ELSE Val(source)

\* lines 322-341: the source file reconstructed from the cells
reconstructedContent(jsonContent) ==
    Join(Map(cellSource, Val(jsonContent["cells"])), <<NL>>)

\* lines 343-350: what importJupyter shows, given whether it threw: the text
\* document opened, or the information message of the catch
shownByImport(jsonContent, threw) ==
    IF threw
    THEN [documents |-> <<>>,
          messages |-> <<"The Jupyter notebook file entered is in an unknown format">>]
    ELSE [documents |-> <<[language |-> languageOf(jsonContent),
                           content |-> reconstructedContent(jsonContent)]>>,
          messages |-> <<>>]

\* ------------------------------------------------------------ the program
VARIABLES
    cards,        \* CardManager.cards
    prompts,      \* "Install now?" messages shown and not yet answered
    installs,     \* texts sent to the pip terminal
    files,        \* the .ipynb files of the workspace folder, by name
    exported,     \* history: the cards each file was last written from
    delivered,    \* number of kernel messages delivered so far
    requests,     \* execute requests sent to a kernel, echoed or not yet
    lastDeletedCards,  \* CardManager.lastDeletedCards
    log,          \* history: the deliveries since the last finalization
    last,         \* history: the last step taken and what it did
    panelInitialised,  \* activate: the output pane has been initialised
    localJupyter,      \* activate: Jupyter was started in the current workspace
    panel,        \* WebviewController.panel is defined
    listed,       \* the ids of the cards the frontend of the panel lists
    quickPicks,   \* quick picks of onFullSetup shown and not yet answered
    managers,     \* the JupyterManager instances, each with its promise
    processes,    \* number of Jupyter processes spawned
    timers,       \* the managers whose poll is scheduled, in the order they are due
    url,          \* JupyterManager.url
    lastIndex,    \* JupyterManager.urlPattern.lastIndex
    listeners,    \* listeners of userInteraction.onNewCard
    commands      \* registrations of the command ipe.exportToJupyter

statics == <<sourceTmp, contentTmp, id, jupyterData, currentKernel, heap>>
\* the state of activate() and of JupyterManager that one activation sets up
activation == <<panelInitialised, localJupyter, panel, listed, quickPicks, managers,
                processes, timers, url, lastIndex, listeners, commands>>
vars == <<sourceTmp, contentTmp, id, jupyterData, currentKernel, heap,
          cards, prompts, installs, files, exported, delivered, requests,
          lastDeletedCards, log, last, panelInitialised, localJupyter, panel, listed,
          quickPicks, managers, processes, timers, url, lastIndex, listeners, commands>>

\* JupyterManager.url before a url was extracted
NoUrl == [defined |-> FALSE]

NoStep == [op |-> "init"]

Constructed ==
    /\ sourceTmp = <<>>
    /\ contentTmp = <<>>
    /\ id = 0
    /\ jupyterData = EmptyObject
    /\ currentKernel = Undefined
    /\ heap = InitialHeap
    /\ cards = <<>>
    /\ prompts = <<>>
    /\ installs = <<>>
    /\ files = EmptyObject
    /\ exported = EmptyObject
    /\ delivered = 0
    /\ requests = <<>>
    /\ lastDeletedCards = <<>>
    /\ log = <<>>
    /\ panelInitialised = FALSE
    /\ localJupyter = FALSE
    /\ panel = FALSE
    /\ listed = <<>>
    /\ quickPicks = 0
    /\ managers = <<>>
    /\ processes = 0
    /\ timers = <<>>
    /\ url = NoUrl
    /\ lastIndex = 0
    /\ listeners = 0
    /\ commands = 0

Init == Constructed /\ last = NoStep

\* CardManager.addCard, called by the onCardReady handler of extension.ts
addCard(cs, card) == Append(cs, card)

RECURSIVE addCards(_, _)
addCards(cs, ready) ==
    IF ready = <<>> THEN cs ELSE addCards(addCard(cs, Head(ready)), Tail(ready))

SetStatics(ch) ==
    /\ sourceTmp' = ch.sourceTmp
    /\ contentTmp' = ch.contentTmp
    /\ id' = ch.id
    /\ jupyterData' = ch.jupyterData
    /\ currentKernel' = ch.currentKernel
    /\ heap' = ch.heap

\* The handlers of extension.ts run while the event is fired. For the events
\* of one delivery, in order: the handler run and the number of cards the
\* collection holds when it returns, the collection holding n cards before.
RECURSIVE handlers(_, _)
handlers(n, events) ==
    IF events = <<>> THEN <<>>
    ELSE IF Head(events).event = "cardReady"
    THEN <<[handler |-> "onCardReady", id |-> Head(events).id, cards |-> n + 1]>>
             \o handlers(n + 1, Tail(events))
    ELSE <<[handler |-> "onStatusChanged", status |-> Head(events).status, cards |-> n]>>
             \o handlers(n, Tail(events))

\* The cards as the owner reads them: a card whose outputs array is the array
\* of contentTmp, or whose jupyterData object is the object of jupyterData,
\* shows what the static field holds.
observe(cs, ch) ==
    [i \in 1..Len(cs) |->
        IF ~IsCard(cs[i]) THEN cs[i]
        ELSE [cs[i] EXCEPT !.outputs = IF cs[i].at.outputs = ch.heap.contentTmp
                                       THEN ch.contentTmp ELSE @,
                           !.jupyterData = IF cs[i].at.jupyterData = ch.heap.jupyterData
                                           THEN ch.jupyterData ELSE @]]

\* The onIOPub callback of Interpreter.executeCode for one message of the
\* kernel kernelName.
onIOPub(msg, kernelName) ==
    /\ delivered < MaxMsgs
    /\ \E e \in {interpretOutput(CH, msg, kernelName)} :
       \E entry \in {[msg |-> msg, kernel |-> kernelName, rules |-> e.rules,
                       threw |-> e.threw,
                       appended |-> SubSeq(e.ch.contentTmp, Len(contentTmp) + 1,
                                           Len(e.ch.contentTmp))]} :
          /\ SetStatics(e.ch)
          /\ cards' = observe(addCards(cards, e.cardReady), e.ch)
          /\ prompts' = prompts \o e.prompts
          /\ log' = IF e.cardReady # <<>> THEN <<>> ELSE Append(log, entry)
          /\ last' = [op |-> "deliver", msg |-> msg, kernel |-> kernelName,
                      rules |-> e.rules, threw |-> e.threw,
                      cardReady |-> e.cardReady, statusChanged |-> e.statusChanged,
                      handled |-> handlers(Len(cards), e.events),
                      shown |-> e.prompts, appended |-> entry.appended,
                      before |-> CH, pending |-> log]
    /\ delivered' = delivered + 1
    /\ UNCHANGED <<installs, files, exported, lastDeletedCards>>

\* a message of the kernel other than the echo of a request of the model
Deliver(msg, kernelName) ==
    /\ onIOPub(msg, kernelName)
    /\ UNCHANGED <<activation, requests>>

\* The user answers (accept = picks "Install") or dismisses the i-th prompt.
AnswerPrompt(i, accept) ==
    /\ i \in 1..Len(prompts)
    /\ prompts' = SubSeq(prompts, 1, i - 1) \o SubSeq(prompts, i + 1, Len(prompts))
    /\ installs' = IF accept THEN installs \o installMissingModule(prompts[i].module)
                   ELSE installs
    /\ last' = [op |-> "answer", accept |-> accept, prompt |-> prompts[i]]
    /\ UNCHANGED <<activation, statics, cards, files, exported, delivered, requests,
                   lastDeletedCards, log>>

\* the selections the webview sends with a Jupyter export: none (all cards)
\* or the index of one card
Selections == {Null} \cup {Arr(<<i>>) : i \in 1..Len(cards)}

\* webview.onJupyterExport / the ipe.exportToJupyter command
Export(indexes) ==
    /\ cards # <<>>
    /\ files' = exportToJupyter(WorkspaceOpen, files, cards, indexes, Null).files
    /\ files' # files
    /\ exported' = [path \in DOMAIN files' |->
                       IF path = <<"output_", "python3", ".ipynb">>
                          /\ cardsOfKernel(cards, indexes, "python3") # <<>>
                       THEN cardsOfKernel(cards, indexes, "python3")
                       ELSE IF path = <<"output_", "r", ".ipynb">>
                               /\ cardsOfKernel(cards, indexes, "ir") # <<>>
                       THEN cardsOfKernel(cards, indexes, "ir")
                       ELSE exported[path]]
    /\ last' = [op |-> "export", indexes |-> indexes, cards |-> cards]
    /\ UNCHANGED <<activation, statics, cards, prompts, installs, delivered, requests,
                   lastDeletedCards, log>>

\* userInteraction.onImportNotebook: the user picks the file `path`
Import(path) ==
    /\ path \in DOMAIN files
    /\ Len(cards) + Len(Val(files[path].cells)) <= MaxCards
    /\ id + Len(Val(files[path].cells)) <= MaxId
    /\ \E r \in {importJupyter(CH, files[path])} :
          /\ SetStatics(r.ch)
          /\ cards' = addCards(cards, r.cards)
          /\ last' = [op |-> "import", path |-> path, jsonContent |-> files[path],
                      threw |-> r.threw, cardReady |-> r.cards,
                      shown |-> shownByImport(files[path], r.threw),
                      before |-> CH, cardsBefore |-> cards]
    /\ UNCHANGED <<activation, prompts, installs, files, exported, delivered, requests,
                   lastDeletedCards, log>>

Next ==
    \/ \E d \in Deliveries : Deliver(d[1], d[2])
    \/ \E i \in 1..Len(prompts), accept \in BOOLEAN : AnswerPrompt(i, accept)

Spec == Init /\ [][Next]_vars

\* ------------------------------------------------ the codec with the aggregator
\* the deliveries that build the cards given to the codec
CodecDeliveries ==
    ({MsgEcho, MsgStreamA, MsgRichHtml, MsgErrorPlain, MsgClear, MsgIdle} \X {"python3"})
        \cup ({MsgEchoR, MsgIdle} \X {"ir"})

NextCodec ==
    \/ \E d \in CodecDeliveries : Deliver(d[1], d[2])
    \/ \E indexes \in Selections : Export(indexes)
    \/ \E path \in DOMAIN files : Import(path)

SpecCodec == Init /\ [][NextCodec]_vars

\* ------------------------------------------------- import of a notebook file
\* Notebook documents the user may pick: a markdown and a code cell; a cell
\* of the ir kernel with an output of every shape; and documents that are
\* not in the format (an output with no name, traceback or data; no cells;
\* no kernel specification).
KernelspecOf(name, language) ==
    Obj([kernelspec |-> Obj([name |-> Str(name), language |-> Str(language)])])

CellMarkdown == [cell_type |-> Str("markdown"), metadata |-> MetaEmpty,
                 source |-> Arr(<<<<"#", " ", "h", "i">>>>)]
CellCode == [cell_type |-> Str("code"), execution_count |-> Num(1), metadata |-> MetaEmpty,
             outputs |-> Arr(<<[name |-> Str("stdout"), output_type |-> Str("stream"),
                                text |-> Arr(<<<<"1">>, <<NL>>>>)]>>),
             source |-> Str(<<"p">>)]
CellOutputs ==
    [cell_type |-> Str("code"), execution_count |-> Num(2), metadata |-> MetaEmpty,
     outputs |-> Arr(<<[name |-> Str("stdout"), output_type |-> Str("stream"),
                        text |-> Str(<<"s">>)],
                       [ename |-> Str("E"), evalue |-> Str(<<"x">>),
                        output_type |-> Str("error"),
                        traceback |-> Arr(<<Chr("t"), Chr("u")>>)],
                       [data |-> Obj(("text/plain" :> Str(Chr("p")))
                                     @@ ("text/html" :> Str(Chr("h")))),
                        metadata |-> MetaEmpty, output_type |-> Str("display_data")],
                       [data |-> Obj("application/x-custom" :> Str(Chr("c"))),
                        metadata |-> MetaEmpty, output_type |-> Str("display_data")],
                       [name |-> Str("stderr"), output_type |-> Str("stream"),
                        text |-> Str(<<"w">>), traceback |-> Arr(<<Chr("t")>>),
                        data |-> Obj("text/plain" :> Str(Chr("p")))]>>),
     source |-> Arr(<<<<"x", NL>>, <<"y">>>>)]
CellMarkdownText == [cell_type |-> Str("markdown"), metadata |-> MetaEmpty,
                     source |-> Str(<<"a", NL, "b">>)]
CellCleared ==
    [cell_type |-> Str("code"), execution_count |-> Num(3), metadata |-> MetaEmpty,
     outputs |-> Arr(<<[output_type |-> Str("clear_output"), wait |-> Bool(FALSE)]>>),
     source |-> Arr(<<<<"z">>>>)]

NbMarkdownCode == [cells |-> Arr(<<CellMarkdown, CellCode>>),
                   metadata |-> KernelspecOf("python3", "python"),
                   nbformat |-> Num(4), nbformat_minor |-> Num(2)]
NbOutputs == [cells |-> Arr(<<CellOutputs>>), metadata |-> KernelspecOf("ir", "R"),
              nbformat |-> Num(4), nbformat_minor |-> Num(2)]
NbCleared == [cells |-> Arr(<<CellCode, CellCleared>>), metadata |-> KernelspecOf("python3", "python"),
              nbformat |-> Num(4), nbformat_minor |-> Num(2)]
NbNoCells == [metadata |-> KernelspecOf("python3", "python"),
              nbformat |-> Num(4), nbformat_minor |-> Num(2)]
NbNoKernelspec == [cells |-> Arr(<<CellCode>>),
                   metadata |-> Obj([language_info |-> Obj("{python 3.6.4}")]),
                   nbformat |-> Num(4), nbformat_minor |-> Num(2)]
NbMarkdownText == [cells |-> Arr(<<CellMarkdownText>>),
                   metadata |-> KernelspecOf("python3", "python"),
                   nbformat |-> Num(4), nbformat_minor |-> Num(2)]
NbEmptyNoKernelspec == [cells |-> Arr(<<>>),
                        metadata |-> Obj([language_info |-> Obj("{python 3.6.4}")]),
                        nbformat |-> Num(4), nbformat_minor |-> Num(2)]
NbOtherKernel == [cells |-> Arr(<<CellMarkdown>>),
                  metadata |-> KernelspecOf("julia-1.0", "julia"),
                  nbformat |-> Num(4), nbformat_minor |-> Num(2)]

Notebooks == {NbMarkdownCode, NbOutputs, NbCleared, NbNoCells, NbNoKernelspec,
              NbMarkdownText, NbEmptyNoKernelspec, NbOtherKernel}

\* the number of cells importJupyter goes through
CellCount(jsonContent) ==
    IF TypeOf(Get(jsonContent, "cells")) = "array" THEN Len(Val(jsonContent["cells"])) ELSE 0

\* userInteraction.onImportNotebook: the user picks a notebook file
ImportNotebook(jsonContent) ==
    /\ Len(cards) + CellCount(jsonContent) <= MaxCards
    /\ id + CellCount(jsonContent) <= MaxId
    /\ \E r \in {importJupyter(CH, jsonContent)} :
          /\ SetStatics(r.ch)
          /\ cards' = addCards(cards, r.cards)
          /\ last' = [op |-> "import", jsonContent |-> jsonContent,
                      threw |-> r.threw, cardReady |-> r.cards,
                      shown |-> shownByImport(jsonContent, r.threw),
                      before |-> CH, cardsBefore |-> cards]
    /\ UNCHANGED <<activation, prompts, installs, files, exported, delivered, requests,
                   lastDeletedCards, log>>

NextImport ==
    \/ \E jsonContent \in Notebooks : ImportNotebook(jsonContent)
    \/ Deliver(MsgIdle, "python3")

SpecImport == Init /\ [][NextImport]_vars

\* ------------------------------------------------- the card collection
\* An index i of the model is the index i - 1 of the source: the cards of the
\* model are cards[1], ..., cards[Len(cards)].

\* the most cards the collection is grown to
MaxCollection == 2
\* the id counter up to which the collection creates cards
MaxCollectionId == 2

\* CardManager.deleteCard
deleteCard(cs, deleted, index) ==
    IF index > 0 /\ index < Len(cs) + 1
    THEN [cards |-> SubSeq(cs, 1, index - 1) \o SubSeq(cs, index + 1, Len(cs)),
          lastDeletedCards |-> <<cs[index]>>]
    ELSE [cards |-> cs, lastDeletedCards |-> deleted]

RECURSIVE spliceEach(_, _, _)
\* the map callback of deleteSelectedCards over the indexes left: each index
\* is read from and spliced out of the array as the earlier splices left it
spliceEach(cs, indexes, removed) ==
    IF indexes = <<>> THEN [cards |-> cs, lastDeletedCards |-> removed]
    ELSE LET index == Head(indexes)
         IN IF index > Len(cs)
            THEN spliceEach(cs, Tail(indexes), Append(removed, undefinedCard))
            ELSE spliceEach(SubSeq(cs, 1, index - 1) \o SubSeq(cs, index + 1, Len(cs)),
                            Tail(indexes), Append(removed, cs[index]))

\* CardManager.deleteSelectedCards
deleteSelectedCards(cs, indexes) ==
    spliceEach(cs, SelectSeq(indexes, LAMBDA index : index > 0), <<>>)

\* asCustomCard that sets the kernel and leaves the card's jupyterData
asCustomCard_kernelOnly(card) ==
    IF card.isCustomMarkdown THEN [card EXCEPT !.kernel = Str("python3")] ELSE card

\* the body of the isCustomMarkdown test of addCustomCard and editCustomCard
asCustomCard(card) ==
    IF card.isCustomMarkdown
    THEN [card EXCEPT !.kernel = Str("python3"),
                      !.jupyterData = [cell_type |-> Str("markdown"), metadata |-> MetaEmpty,
                                       source |-> card.sourceCode]]
    ELSE card

\* CardManager.addCustomCard
addCustomCard(ch, cs, card) ==
    LET assigned == assignId(ch)
    IN [ch |-> assigned.ch,
        cards |-> Append(cs, asCustomCard([card EXCEPT !.id = assigned.id]))]

\* CardManager.editCustomCard
editCustomCard(cs, index, card) ==
    IF index > 0 /\ index < Len(cs) + 1
    THEN [cs EXCEPT ![index] = asCustomCard(card)]
    ELSE cs

\* CardManager.resetState with ContentHelpers.resetId
resetState(ch) == [ch |-> [ch EXCEPT !.id = 0], cards |-> <<>>]

\* The cards the webview posts with addCustomCard: a markdown card and a card
\* that is not markdown, as the frontend builds them.
FrontendCard(markdown, sourceCode) ==
    [Card(0, <<"Card">>, Str(sourceCode), <<>>, EmptyObject, Undefined)
        EXCEPT !.isCustomMarkdown = markdown]
FrontendCards == {FrontendCard(TRUE, <<"m">>), FrontendCard(FALSE, <<"c">>)}

\* webview.onAddCustomCard
AddCustomCard(card) ==
    /\ Len(cards) < MaxCollection
    /\ id < MaxCollectionId
    /\ \E r \in {addCustomCard(CH, cards, card)} :
          /\ SetStatics(r.ch)
          /\ cards' = r.cards
    /\ last' = [op |-> "addCustomCard"]
    /\ UNCHANGED <<activation, prompts, installs, files, exported, delivered, requests,
                   lastDeletedCards, log>>

\* the frontend's copy of the card at index with a new source
EditedCopy(index, sourceCode) == [cards[index] EXCEPT !.sourceCode = Str(sourceCode)]

\* webview.onEditCustomCard
EditCustomCard(index, card) ==
    /\ cards' = editCustomCard(cards, index, card)
    /\ last' = [op |-> "editCustomCard", index |-> index]
    /\ UNCHANGED <<activation, statics, prompts, installs, files, exported, delivered, requests,
                   lastDeletedCards, log>>

\* webview.onDeleteCard
DeleteCard(index) ==
    /\ \E r \in {deleteCard(cards, lastDeletedCards, index)} :
          /\ cards' = r.cards
          /\ lastDeletedCards' = r.lastDeletedCards
    /\ last' = [op |-> "deleteCard", cardsBefore |-> cards]
    /\ UNCHANGED <<activation, statics, prompts, installs, files, exported, delivered, requests, log>>

\* the selections of two cards the webview posts with deleteSelectedCards
PairSelections ==
    {<<i, j>> : i \in 1..Len(cards), j \in 1..Len(cards)} \ {<<i, i>> : i \in 1..Len(cards)}

\* webview.onDeleteSelectedCards
DeleteSelectedCards(indexes) ==
    /\ \E r \in {deleteSelectedCards(cards, indexes)} :
          /\ cards' = r.cards
          /\ lastDeletedCards' = r.lastDeletedCards
    /\ last' = [op |-> "deleteSelectedCards", indexes |-> indexes, cardsBefore |-> cards]
    /\ UNCHANGED <<activation, statics, prompts, installs, files, exported, delivered, requests, log>>

\* webview.undoClicked
UndoClicked ==
    /\ Len(cards) + Len(SelectSeq(lastDeletedCards, IsCard)) <= MaxCollection
    /\ cards' = addCards(cards, lastDeletedCards)
    /\ lastDeletedCards' = <<>>
    /\ last' = [op |-> "undoClicked"]
    /\ UNCHANGED <<activation, statics, prompts, installs, files, exported, delivered, requests, log>>

\* userInteraction.onShowPane once the panel is initialised: the else branch
ResetState ==
    /\ \E r \in {resetState(CH)} :
          /\ SetStatics(r.ch)
          /\ cards' = r.cards
    /\ last' = [op |-> "resetState"]
    /\ UNCHANGED <<activation, prompts, installs, files, exported, delivered, requests,
                   lastDeletedCards, log>>

CollectionNotebooks == {NbMarkdownCode, NbCleared}

NextCollection ==
    \/ /\ Len(cards) < MaxCollection
       /\ id < MaxCollectionId
       /\ Deliver(MsgIdle, "python3")
    \/ \E jsonContent \in CollectionNotebooks :
          /\ Len(cards) + CellCount(jsonContent) <= MaxCollection
          /\ id + CellCount(jsonContent) <= MaxCollectionId
          /\ ImportNotebook(jsonContent)
    \/ \E card \in FrontendCards : AddCustomCard(card)
    \/ \E index \in 1..Len(cards) :
          /\ IsCard(cards[index])
          /\ EditCustomCard(index, EditedCopy(index, <<"n">>))
          /\ cards' # cards
    \/ \E index \in 0..(Len(cards) + 1) : DeleteCard(index)
    \/ \E indexes \in PairSelections : DeleteSelectedCards(indexes)
    \/ UndoClicked
    \/ ResetState

SpecCollection == Init /\ [][NextCollection]_vars

\* ------------------------------------------------- custom cards on their own
\* the cards the webview posts with editCustomCard for an index: its copy of
\* the card there with a new source, or a card built anew; for an index
\* outside the collection, a card built anew
EditedCards(index) ==
    (IF index \in 1..Len(cards) THEN {EditedCopy(index, <<"n">>)} ELSE {})
        \cup {FrontendCard(TRUE, <<"e">>), FrontendCard(FALSE, <<"e">>)}

NextCustom ==
    \/ \E card \in FrontendCards : AddCustomCard(card)
    \/ \E index \in 0..(Len(cards) + 1) :
          \E card \in EditedCards(index) : EditCustomCard(index, card)

SpecCustom == Init /\ [][NextCustom]_vars

\* ------------------------------------------------- export to Jupyter files
MaxFiles == 1         \* notebook files in the folder before an export

\* the kernel whose cards writeToFile is given under the name kernelName
kernelOfFile(kernelName) == IF kernelName = "r" THEN "ir" ELSE kernelName

\* One call of CardManager.exportToJupyter in the environment env, made
\* while the workspace folder holds fewer than MaxFiles notebook files.
ExportToJupyter(env, indexes, fileName) ==
    /\ Cardinality(DOMAIN files) < MaxFiles
    /\ \E r \in {exportToJupyter(env, files, cards, indexes, fileName)} :
          /\ files' = r.files
          /\ exported' =
                [path \in DOMAIN r.files |->
                    IF \E n \in 1..Len(r.notifications) :
                           r.notifications[n].openNotebook = path
                    THEN LET n == CHOOSE m \in 1..Len(r.notifications) :
                                      /\ r.notifications[m].openNotebook = path
                                      /\ \A l \in (m + 1)..Len(r.notifications) :
                                            r.notifications[l].openNotebook # path
                         IN cardsOfKernel(cards, indexes,
                                          kernelOfFile(r.notifications[n].kernelName))
                    ELSE exported[path]]
          /\ last' = IF r.unhandled
                      THEN [op |-> "exportToJupyter raised", indexes |-> indexes]
                      ELSE [op |-> "exportToJupyter", env |-> env, indexes |-> indexes,
                            fileName |-> fileName, filesBefore |-> files,
                            pythonData |-> r.pythonData, rData |-> r.rData,
                            notifications |-> r.notifications, errors |-> r.errors]
    /\ UNCHANGED <<activation, statics, cards, prompts, installs, delivered, requests,
                   lastDeletedCards, log>>

\* the environments of an export: a workspace folder where every write
\* succeeds, no workspace folder, and a folder where one file cannot be written
Workspaces ==
    {WorkspaceOpen, Workspace(FALSE, {}),
     Workspace(TRUE, {<<"output_", "python3", ".ipynb">>}),
     Workspace(TRUE, {<<"output_", "r", ".ipynb">>})}

\* the selections of one or two cards, in either order, the webview posts
\* with a Jupyter export
ExportSelections ==
    {Arr(<<i>>) : i \in 1..Len(cards)}
        \cup {Arr(<<p[1], p[2]>>) :
                 p \in {q \in (1..Len(cards)) \X (1..Len(cards)) : q[1] # q[2]}}

\* webview.onJupyterExport
JupyterExport(env, indexes) == ExportToJupyter(env, indexes, Null)

\* the ipe.exportToJupyter command: every card
ExportCommand(env) == ExportToJupyter(env, Null, Null)

\* CardManager.getCardId: reading the id of an undefined element raises
getCardId(cs, index) ==
    IF index \in 1..Len(cs) /\ IsCard(cs[index])
    THEN [threw |-> FALSE, id |-> cs[index].id]
    ELSE [threw |-> TRUE]

\* webview.onOpenInBrowser: the card at index is exported to a file of its
\* own; nothing is exported when getCardId raises
OpenInBrowser(env, index) ==
    IF getCardId(cards, index).threw
    THEN /\ last' = [op |-> "getCardId raised", index |-> index]
         /\ UNCHANGED <<activation, statics, cards, prompts, installs, files, exported,
                        delivered, requests, lastDeletedCards, log>>
    ELSE ExportToJupyter(env, Arr(<<index>>),
                         Str(<<"exportedCardTmp_", getCardId(cards, index).id, ".ipynb">>))

NextExport ==
    \/ \E d \in {MsgIdle, MsgStreamA} \X Kernels :
          Len(cards) < MaxCards /\ Deliver(d[1], d[2])
    \/ \E jsonContent \in {NbMarkdownCode, NbOutputs} : ImportNotebook(jsonContent)
    \/ \E env \in Workspaces, indexes \in ExportSelections : JupyterExport(env, indexes)
    \/ \E env \in Workspaces : ExportCommand(env)
    \/ \E env \in Workspaces, index \in 1..Len(cards) : OpenInBrowser(env, index)

SpecExport == Init /\ [][NextExport]_vars

\* -------------------------------------------- code execution and its echo
MaxSourceLen == 4
MaxRequests == 1      \* execute requests made in one behaviour
SourceChars == {CR, NL, "a"}
Sources == UNION {[1..n -> SourceChars] : n \in 1..MaxSourceLen}

\* Interpreter.kernelPromise after initialisePanel started the python3 kernel
kernelPromise == {"python3"}

\* the code of the request made by executeCode
requestCode(source) == replace(source, <<CR, NL>>, <<NL>>)

\* Interpreter.executeCode(source, kernelName)
ExecuteCode(source, kernelName) ==
    /\ Len(requests) < MaxRequests
    /\ requests' = IF kernelName \in kernelPromise
                   THEN Append(requests, [source |-> source, code |-> requestCode(source),
                                          kernel |-> kernelName, echoed |-> FALSE])
                   ELSE requests
    /\ last' = [op |-> "executeCode", kernel |-> kernelName,
                requested |-> kernelName \in kernelPromise]
    /\ UNCHANGED <<activation, statics, cards, prompts, installs, files, exported, delivered,
                   lastDeletedCards, log>>

\* the execute_input message by which the kernel echoes the code of a request
ExecuteInput(request) ==
    Msg("execute_input", MetaEmpty, [code |-> Str(request.code), execution_count |-> Num(1)])

\* the kernel echoes the oldest request not yet echoed to the onIOPub
\* callback of that request
EchoInput ==
    \E i \in 1..Len(requests) :
        /\ ~requests[i].echoed
        /\ \A j \in 1..(i - 1) : requests[j].echoed
        /\ onIOPub(ExecuteInput(requests[i]), requests[i].kernel)
        /\ requests' = [requests EXCEPT ![i].echoed = TRUE]
        /\ UNCHANGED activation

NextExecute ==
    \/ \E source \in Sources, kernelName \in Kernels : ExecuteCode(source, kernelName)
    \/ EchoInput
    \/ Deliver(MsgIdle, "python3")

SpecExecute == Init /\ [][NextExecute]_vars

\* ------------------------------------------- the classifier on its own
\* the representation keys offered to the classifier: five of the preference
\* list and one that is not in it
ClassifierKeys == {"application/json", "text/html", "image/png", "text/markdown",
                   "text/plain", "application/x-custom"}
Payloads == {Str(<<"p">>), Str(<<"q">>)}
ClassifierInputs == UNION {[keys -> Payloads] : keys \in SUBSET ClassifierKeys}

InitClassifier ==
    /\ Constructed
    /\ last \in {[op |-> "input", data |-> d] : d \in ClassifierInputs}

\* interpretRich applied to the data
ChooseType ==
    /\ last.op = "input"
    /\ last' = [op |-> "interpretRich", data |-> last.data,
                chosen |-> chooseTypeFromComplexData(last.data),
                output |-> interpretRich(last.data)]
    /\ UNCHANGED <<activation, statics, cards, prompts, installs, files, exported, delivered,
                   requests, lastDeletedCards, log>>

NextClassifier == ChooseType

SpecClassifier == InitClassifier /\ [][NextClassifier]_vars

\* --------------------------------------- the dependency detector on its own
MaxEvalueLen == 5
EvalueChars == {NM, QUOTE, "f", NL}
Evalues == UNION {[1..n -> EvalueChars] : n \in 0..MaxEvalueLen}

InitDetector ==
    /\ Constructed
    /\ last \in {[op |-> "input", evalue |-> e] : e \in Evalues}

\* getMissingModule applied to the error value
Detect ==
    /\ last.op = "input"
    /\ prompts' = prompts \o getMissingModule(last.evalue)
    /\ last' = [op |-> "getMissingModule", evalue |-> last.evalue,
                shown |-> getMissingModule(last.evalue)]
    /\ UNCHANGED <<activation, statics, cards, installs, files, exported, delivered,
                   requests, lastDeletedCards, log>>

NextDetector ==
    \/ Detect
    \/ \E i \in 1..Len(prompts), accept \in BOOLEAN : AnswerPrompt(i, accept)

SpecDetector == InitDetector /\ [][NextDetector]_vars

\* ================================================================ claims
Delivered == last.op = "deliver"
Finalized == Delivered /\ last.cardReady # <<>>

IsIdle(msg) ==
    Has(msg.content, "execution_state") /\ msg.content["execution_state"] = Str("idle")

RECURSIVE Appended(_)
\* the outputs appended by a sequence of deliveries, in delivery order
Appended(entries) ==
    IF entries = <<>> THEN <<>> ELSE Head(entries).appended \o Appended(Tail(entries))

Stdout(chars) == CardOutput(Str("stdout"), Str(chars))
ErrorOutput(msg) == CardOutput(Str("error"), Str(Join(Val(msg.content["traceback"]), <<NL>>)))

\* C1: a delivery fires card-ready exactly once when the message is an idle
\* status and never otherwise, and the outputs of the emitted record are the
\* outputs appended by the deliveries since the previous finalization, in
\* arrival order.
C1_OneRecordPerIdle ==
    Delivered =>
        /\ Len(last.cardReady) = (IF IsIdle(last.msg) THEN 1 ELSE 0)
        /\ last.cardReady # <<>> => last.cardReady[1].outputs = Appended(last.pending)

\* an idle finalizes a record with the two stream outputs, in order
C1_Witness ==
    /\ Finalized
    /\ last.cardReady[1].outputs = <<Stdout(<<"a">>), Stdout(<<"b">>)>>

\* C2: a record finalized by an idle of kernel K holds only the outputs and
\* the source of deliveries of kernel K.
C2_KernelIsolation ==
    Finalized =>
        LET mine == SelectSeq(last.pending, LAMBDA e : e.kernel = last.kernel)
            echoes == SelectSeq(mine, LAMBDA e : "echo" \in e.rules /\ ~e.threw)
        IN /\ last.cardReady[1].outputs = Appended(mine)
           /\ echoes # <<>> =>
                 last.cardReady[1].sourceCode = echoes[Len(echoes)].msg.content["code"]

\* C3: importing a written document yields, in the same order, one record
\* per exported record, with the interchangeData of that record.
C3_RoundTrip ==
    last.op = "import" =>
        /\ ~last.threw
        /\ Len(last.cardReady) = Len(exported[last.path])
        /\ \A i \in 1..Len(last.cardReady) :
              last.cardReady[i].jupyterData = exported[last.path][i].jupyterData

\* the first-matching rule of a message, in the order status, echo, stream,
\* rich result, error, other
Classify(msg) ==
    LET c == msg.content
    IN IF Has(c, "execution_state") THEN "status"
       ELSE IF Has(c, "code") THEN "echo"
       ELSE IF Has(c, "name") THEN "stream"
       ELSE IF Has(c, "data") THEN "rich"
       ELSE IF Has(c, "ename") /\ Has(c, "evalue") /\ Has(c, "traceback") THEN "error"
       ELSE "other"

\* C4 (as claimed): exactly one rule is applied to a message, the first that
\* matches; the 'other message' rule is not applied on top of another rule.
C4_ExactlyOneRule ==
    Delivered =>
        last.rules = {IF Classify(last.msg) = "other" THEN "jupyterData"
                      ELSE Classify(last.msg)}

\* C4 (amended): at most one of the rules status, echo, stream, rich result
\* and error is applied, the first that matches, and the snapshot rule is
\* applied in addition to every message that is neither status nor echo,
\* unless the matched rule raised.
C4_FirstMatchPlusSnapshot ==
    Delivered =>
        /\ last.rules \ {"jupyterData"} =
              (IF Classify(last.msg) = "other" THEN {} ELSE {Classify(last.msg)})
        /\ "jupyterData" \in last.rules <=>
              (Classify(last.msg) \notin {"status", "echo"} /\ ~last.threw)

\* a message matching three tests is handled by the stream rule and the
\* snapshot rule
C4_Witness ==
    /\ Delivered
    /\ last.msg = MsgMixed
    /\ last.rules = {"stream", "jupyterData"}
    /\ last.appended = <<Stdout(<<"m">>)>>

\* the position of a key in the preference list
ListIndex(key) == CHOOSE i \in 1..Len(validDataTypesList) : validDataTypesList[i] = key
Listed(key) == \E i \in 1..Len(validDataTypesList) : validDataTypesList[i] = key

\* C5: whenever a key of the preference list is present, the classifier
\* returns the present key that comes earliest in the list, and its choice is
\* the same for every data with the same set of keys.
C5_PreferenceOrder ==
    last.op = "interpretRich" =>
        LET present == {k \in DOMAIN last.data : Listed(k)}
        IN /\ present # {} =>
                /\ TypeOf(last.chosen) = "string"
                /\ Val(last.chosen) \in present
                /\ \A k \in present : ListIndex(Val(last.chosen)) <= ListIndex(k)
           /\ \A d \in ClassifierInputs :
                DOMAIN d = DOMAIN last.data => chooseTypeFromComplexData(d) = last.chosen

\* text/html wins over text/plain and an unlisted key
C5_Witness ==
    /\ last.op = "interpretRich"
    /\ DOMAIN last.data = {"text/html", "text/plain", "application/x-custom"}
    /\ last.chosen = Str("text/html")
    /\ last.output = CardOutput(Str("text/html"), last.data["text/html"])

\* C6: a rich-result message appends exactly one output whose kind is a key
\* of the message's data and whose payload is the data under that key.
C6_RichOutputKind ==
    (Delivered /\ "rich" \in last.rules) =>
        LET data == Val(last.msg.content["data"])
        IN /\ Len(last.appended) = 1
           /\ TypeOf(last.appended[1].type) = "string"
           /\ Val(last.appended[1].type) \in DOMAIN data
           /\ last.appended[1].output = data[Val(last.appended[1].type)]

\* C7: a stream message appends exactly one stdout output whose payload is
\* the full text: the string, or the concatenation of the fragments.
C7_StreamOutput ==
    (Delivered /\ "stream" \in last.rules) =>
        LET text == last.msg.content["text"]
            full == IF TypeOf(text) = "string" THEN Val(text) ELSE Join(Val(text), <<>>)
        IN last.appended = <<Stdout(full)>>

ContainsPattern(evalue) ==
    \E i \in 1..Len(evalue), j \in 1..Len(evalue) :
        /\ evalue[i] = NM
        /\ i + 3 <= j
        /\ evalue[i + 1] = QUOTE
        /\ evalue[j] = QUOTE
        /\ \A l \in (i + 2)..(j - 1) : evalue[l] # NL

\* the X of the first No module named 'X', up to the first quote that ends it
QuotedName(evalue) ==
    LET starts == {i \in 1..Len(evalue) :
                      \E j \in (i + 3)..Len(evalue) :
                          /\ evalue[i] = NM /\ evalue[i + 1] = QUOTE /\ evalue[j] = QUOTE
                          /\ \A l \in (i + 2)..(j - 1) : evalue[l] # NL}
        i == CHOOSE x \in starts : \A y \in starts : x <= y
        ends == {j \in (i + 3)..Len(evalue) :
                    evalue[j] = QUOTE /\ \A l \in (i + 2)..(j - 1) : evalue[l] # NL}
        j == CHOOSE x \in ends : \A y \in ends : x <= y
    IN SubSeq(evalue, i + 2, j - 1)

StripQuotes(chars) == SelectSeq(chars, LAMBDA c : c # QUOTE)

\* C9: the detector shows one prompt, for the identifier X without quotes,
\* exactly when the error value holds No module named 'X' (X not empty and
\* on one line), and none otherwise; pip install runs only for a prompt the
\* user accepted.
C9_DetectorYieldsIdentifier ==
    /\ last.op = "getMissingModule" =>
          IF ContainsPattern(last.evalue)
          THEN /\ Len(last.shown) = 1
               /\ last.shown[1].module = StripQuotes(QuotedName(last.evalue))
               /\ prompts = last.shown
          ELSE last.shown = <<>> /\ prompts = <<>>
    /\ last.op \in {"input", "getMissingModule"} => installs = <<>>
    /\ last.op = "answer" =>
          installs = (IF last.accept /\ last.prompt.module # <<>>
                      THEN <<last.prompt.module>> ELSE <<>>)

\* the user accepted the prompt for module f and pip install f was sent
C9_Witness ==
    /\ last.op = "answer"
    /\ last.accept
    /\ last.prompt = [shown |-> <<"f">>, module |-> <<"f">>]
    /\ installs = <<<<"f">>>>

\* C10: right after a finalization the pending source, the pending outputs
\* and the pending snapshot are all empty.
C10_BufferEmptyAfterFinalize ==
    Finalized => (sourceTmp = <<>> /\ contentTmp = <<>> /\ jupyterData = EmptyObject)

\* C11: the record finalized by an idle delivered for kernel K is stamped
\* with kernel K.
C11_StampedWithOwnKernel ==
    Finalized => last.cardReady[1].kernel = Str(last.kernel)

\* C12: the interchange data of every emitted record has a metadata and an
\* outputs member; when no delivery since the previous finalization ran the
\* snapshot rule they are the empty object and the empty list.
C12_SnapshotDefaults ==
    Finalized =>
        LET jd == last.cardReady[1].jupyterData
            supplied == \E i \in 1..Len(last.pending) : "jupyterData" \in last.pending[i].rules
        IN /\ Has(jd, "metadata")
           /\ Has(jd, "outputs")
           /\ TypeOf(jd["outputs"]) = "array"
           /\ ~supplied => (jd["metadata"] = MetaEmpty /\ jd["outputs"] = Arr(<<>>))

\* an echo and then an idle: the record has the source array and the defaults
C12_Witness ==
    /\ Finalized
    /\ Len(last.pending) = 1
    /\ last.pending[1].msg = MsgEcho
    /\ last.cardReady[1].jupyterData["metadata"] = MetaEmpty
    /\ last.cardReady[1].jupyterData["outputs"] = Arr(<<>>)
    /\ Has(last.cardReady[1].jupyterData, "source")

\* C14: a status message whose execution_state is not idle leaves the pending
\* source, outputs and snapshot and the id counter as they were, emits no
\* record, and its state is reported on the status channel.
C14_BusyChangesNothing ==
    (Delivered /\ Has(last.msg.content, "execution_state") /\ ~IsIdle(last.msg)) =>
        /\ sourceTmp = last.before.sourceTmp
        /\ contentTmp = last.before.contentTmp
        /\ jupyterData = last.before.jupyterData
        /\ id = last.before.id
        /\ last.cardReady = <<>>
        /\ last.statusChanged = <<Val(last.msg.content["execution_state"])>>

\* busy arrives while a source, an output and a snapshot are pending
C14_Witness ==
    /\ Delivered
    /\ last.msg = MsgBusy
    /\ last.statusChanged = <<"busy">>
    /\ sourceTmp # <<>>
    /\ contentTmp # <<>>
    /\ Has(jupyterData, "outputs")

\* C13: no delivery changes the source code, the outputs or the interchange
\* data of a record emitted before it.
C13_EmittedRecordsImmutable ==
    [][\A i \in 1..Len(cards) :
          /\ i <= Len(cards')
          /\ cards'[i].sourceCode = cards[i].sourceCode
          /\ cards'[i].outputs = cards[i].outputs
          /\ cards'[i].jupyterData = cards[i].jupyterData]_vars

\* after a record was emitted a stream message fills the buffer again, and
\* the record still shows the output it was emitted with
C13_Witness ==
    /\ Delivered
    /\ Len(cards) = 1
    /\ last.appended = <<Stdout(<<"b">>)>>
    /\ contentTmp = <<Stdout(<<"b">>)>>
    /\ cards[1].outputs = <<Stdout(<<"a">>)>>
    /\ Val(cards[1].jupyterData["outputs"]) # <<>>
    /\ Has(jupyterData, "outputs")

\* C15: the source code of a record finalized after the echo of a request
\* is the submitted source with every carriage return + newline replaced by
\* a newline, not only the first.
C15_LineEndingsNormalized ==
    (Finalized /\ requests # <<>> /\ requests[Len(requests)].echoed) =>
        last.cardReady[1].sourceCode =
            Str(replaceAll(requests[Len(requests)].source, <<CR, NL>>, <<NL>>))

Imported == last.op = "import" /\ ~last.threw
ImportedCells == Val(last.jsonContent["cells"])

\* C18: a successful import of n cells appends n records after the records
\* already there, in document order, with ids c, c+1, ..., c+n-1 where c is
\* the id counter before the import, each titled Card {id}.
C18_ImportAppendsConsecutiveIds ==
    Imported =>
        /\ Len(last.cardReady) = Len(ImportedCells)
        /\ cards = last.cardsBefore \o last.cardReady
        /\ id = last.before.id + Len(ImportedCells)
        /\ \A k \in 1..Len(last.cardReady) :
              /\ last.cardReady[k].id = last.before.id + k - 1
              /\ last.cardReady[k].title = <<"Card ", last.before.id + k - 1>>
              /\ last.cardReady[k].jupyterData = ImportedCells[k]

\* two cells are imported after one record of the aggregator: ids 1 and 2
C18_Witness ==
    /\ Imported
    /\ last.jsonContent = NbMarkdownCode
    /\ last.before.id = 1
    /\ Len(cards) = 3
    /\ cards[1].id = 0 /\ cards[2].id = 1 /\ cards[3].id = 2
    /\ cards[3].title = <<"Card ", 2>>

\* C19: an imported record is a custom markdown record exactly if its cell's
\* cell_type is markdown, and its kernel is the document's
\* metadata.kernelspec.name.
C19_MarkdownFlagAndKernel ==
    Imported =>
        \A k \in 1..Len(last.cardReady) :
            /\ last.cardReady[k].isCustomMarkdown =
                   (Get(ImportedCells[k], "cell_type") = Str("markdown"))
            /\ last.cardReady[k].kernel =
                   Val(Val(last.jsonContent["metadata"])["kernelspec"])["name"]

\* the markdown cell and the code cell of a python3 document
C19_Witness ==
    /\ Imported
    /\ last.jsonContent = NbMarkdownCode
    /\ last.cardReady[1].isCustomMarkdown
    /\ ~last.cardReady[2].isCustomMarkdown
    /\ last.cardReady[1].kernel = Str("python3")
    /\ last.cardReady[2].kernel = Str("python3")

\* the output entry the import rules give for one output of a cell
ExpectedEntry(output) ==
    IF Has(output, "name")
    THEN Stdout(IF TypeOf(output["text"]) = "string" THEN Val(output["text"])
                ELSE Join(Val(output["text"]), <<>>))
    ELSE IF Has(output, "traceback")
    THEN CardOutput(Str("error"), Str(Join(Val(output["traceback"]), <<NL>>)))
    ELSE LET kind == chooseTypeFromComplexData(Val(output["data"]))
         IN CardOutput(kind, IF TypeOf(kind) = "string" THEN Val(output["data"])[Val(kind)]
                             ELSE Undefined)

\* an output one of the three rules can convert
Convertible(output) ==
    IF Has(output, "name") THEN TypeOf(Get(output, "text")) \in {"string", "array"}
    ELSE IF Has(output, "traceback") THEN TypeOf(output["traceback"]) = "array"
    ELSE TypeOf(Get(output, "data")) = "object"

\* the document has a cells list and a kernel specification
HasNotebookShape(jsonContent) ==
    /\ TypeOf(Get(jsonContent, "cells")) = "array"
    /\ TypeOf(Get(jsonContent, "metadata")) = "object"
    /\ TypeOf(Get(Val(jsonContent["metadata"]), "kernelspec")) = "object"

CellOutputsOf(cell) ==
    IF TypeOf(Get(cell, "outputs")) = "array" THEN Val(cell["outputs"]) ELSE <<>>

\* every cell's outputs became the entries the rules give, one per output,
\* in order
EntriesAsExpected ==
    /\ ~last.threw
    /\ Len(last.cardReady) = Len(ImportedCells)
    /\ \A k \in 1..Len(last.cardReady) :
          LET outputs == CellOutputsOf(ImportedCells[k])
          IN /\ Len(last.cardReady[k].outputs) = Len(outputs)
             /\ \A j \in 1..Len(outputs) :
                   last.cardReady[k].outputs[j] = ExpectedEntry(outputs[j])

C16_IdsUnique ==
    \A i \in 1..Len(cards), j \in 1..Len(cards) :
        (i # j /\ IsCard(cards[i]) /\ IsCard(cards[j])) => cards[i].id # cards[j].id

\* the number of records a step added at the end of the collection
Created == Len(cards') - Len(cards)

\* C17: resetState leaves the collection empty and the id counter at 0; a
\* step that creates records (a finalization, an import, a custom card) gives
\* them the ids from the counter on and advances the counter by one per
\* record created; no other step changes the counter.
C17_ResetThenConsecutiveIds ==
    [][/\ last'.op = "resetState" => (cards' = <<>> /\ id' = 0)
       /\ last'.op \in {"deliver", "import", "addCustomCard"} =>
             /\ id' = id + Created
             /\ \A k \in 1..Created : cards'[Len(cards) + k].id = id + k - 1
       /\ last'.op \notin {"resetState", "deliver", "import", "addCustomCard"} =>
             id' = id]_vars

\* the source of a cell as one string
SourceText(cell) ==
    IF TypeOf(cell["source"]) = "array" THEN Join(Val(cell["source"]), <<>>)
    ELSE Val(cell["source"])

RECURSIVE PrefixAfterNewlines(_)
\* chars with '# ' put after every newline that another line follows
PrefixAfterNewlines(chars) ==
    IF chars = <<>> THEN <<>>
    ELSE IF chars[1] = NL /\ Len(chars) > 1
    THEN <<NL, "#", " ">> \o PrefixAfterNewlines(Tail(chars))
    ELSE <<chars[1]>> \o PrefixAfterNewlines(Tail(chars))

\* a cell's text with every line of a markdown cell prefixed with '# '
ExpectedCellText(cell) ==
    IF cell["cell_type"] = Str("markdown")
    THEN <<"#", " ">> \o PrefixAfterNewlines(SourceText(cell))
    ELSE SourceText(cell)

\* C21: the text document opened by a successful import holds the cells'
\* sources in document order joined by newline, every line of a markdown
\* cell prefixed with '# ' (whether the source is an array of lines or one
\* multi-line string), code cells unchanged; for [markdown '# hi', code 'p']
\* it is '# # hi' newline 'p'.
C21_ReconstructedBuffer ==
    Imported =>
        /\ Len(last.shown.documents) = 1
        /\ last.shown.documents[1].content =
               Join(Map(ExpectedCellText, ImportedCells), <<NL>>)
        /\ last.jsonContent = NbMarkdownCode =>
               last.shown.documents[1].content = <<"#", " ", "#", " ", "h", "i", NL, "p">>

\* every output of every cell of the document is convertible
AllConvertible(jsonContent) ==
    \A k \in 1..Len(Val(jsonContent["cells"])) :
        \A j \in 1..Len(CellOutputsOf(Val(jsonContent["cells"])[k])) :
            Convertible(CellOutputsOf(Val(jsonContent["cells"])[k])[j])

\* the document lacks the cells list or the kernel specification, or one of
\* its outputs has no name, traceback or data
Unrecognized(jsonContent) ==
    IF HasNotebookShape(jsonContent) THEN ~AllConvertible(jsonContent) ELSE TRUE

\* C22: an import of a document without cells list, without kernel
\* specification or with an inconvertible output fails, and a failed import
\* emits no record (none of the cells before the failing one either), opens
\* no text document and shows the 'unknown format' message exactly once.
C22_FailedImportEmitsNothing ==
    last.op = "import" =>
        /\ Unrecognized(last.jsonContent) => last.threw
        /\ last.threw =>
              /\ last.cardReady = <<>>
              /\ cards = last.cardsBefore
              /\ last.shown.documents = <<>>
              /\ last.shown.messages =
                     <<"The Jupyter notebook file entered is in an unknown format">>

\* the import of a document whose second cell cannot be converted fails
\* while the collection holds a record of the aggregator
C22_Witness ==
    /\ last.op = "import"
    /\ last.jsonContent = NbCleared
    /\ last.threw
    /\ Len(cards) = 1
    /\ last.shown.documents = <<>>

\* C23: a failed import leaves the card collection and the id counter as
\* they were before the call.
C23_FailedImportCommitsNothing ==
    (last.op = "import" /\ last.threw) =>
        /\ cards = last.cardsBefore
        /\ id = last.before.id

Exported == last.op = "exportToJupyter"

\* the file of the export for the kernel name given to writeToFile
ExportPath(kernelName) ==
    IF last.fileName = Null THEN <<"output_", kernelName, ".ipynb">> ELSE Val(last.fileName)

\* the file at path is as it was before the export
SameFile(path) ==
    /\ (path \in DOMAIN files) = (path \in DOMAIN last.filesBefore)
    /\ path \in DOMAIN files => files[path] = last.filesBefore[path]

\* the export wrote nothing and notified nothing for the kernel name
NothingExportedFor(kernelName) ==
    /\ \A n \in 1..Len(last.notifications) : last.notifications[n].kernelName # kernelName
    /\ last.fileName = Null => SameFile(ExportPath(kernelName))

\* C24: an export whose selection has no ir record writes no file and shows
\* no notification for ir, however many python3 records it exports; and the
\* same for python3 with no python3 record.
C24_NoFileForAbsentFlavor ==
    Exported =>
        /\ cardsOfKernel(cards, last.indexes, "ir") = <<>> => NothingExportedFor("r")
        /\ cardsOfKernel(cards, last.indexes, "python3") = <<>> =>
               NothingExportedFor("python3")

\* two python3 records and no ir record are exported: the python3 file is
\* written and the folder holds no ir file
C24_Witness ==
    /\ Exported
    /\ Len(cardsOfKernel(cards, last.indexes, "python3")) = 2
    /\ cardsOfKernel(cards, last.indexes, "ir") = <<>>
    /\ <<"output_", "python3", ".ipynb">> \in DOMAIN files
    /\ <<"output_", "r", ".ipynb">> \notin DOMAIN files
    /\ Len(last.notifications) = 1

\* the document the export built for the kernel name
DocumentFor(kernelName) == IF kernelName = "r" THEN last.rData ELSE last.pythonData

\* the export has a document with cells whose file cannot be written, and
\* reaches it
WriteFails ==
    /\ last.env.workspaceFolders
    /\ \/ /\ Val(last.pythonData.cells) # <<>>
          /\ ExportPath("python3") \in last.env.unwritable
       \/ /\ Val(last.rData.cells) # <<>>
          /\ ExportPath("r") \in last.env.unwritable

\* C25: without a workspace folder the export shows the no-workspace error
\* and writes no file; with a folder and a failing write it shows the
\* 'unable to save' error, which is another message; and every notification
\* offering to open a file is for a file written by this export, and
\* carries the base name of its path.
C25_ExportErrors ==
    Exported =>
        /\ ~last.env.workspaceFolders =>
              /\ last.errors = <<NoWorkspaceError>>
              /\ files = last.filesBefore
              /\ last.notifications = <<>>
        /\ WriteFails => last.errors = <<SaveError>>
        /\ SaveError # NoWorkspaceError
        /\ (last.env.workspaceFolders /\ ~WriteFails) => last.errors = <<>>
        /\ \A n \in 1..Len(last.notifications) :
              LET shown == last.notifications[n]
              IN /\ shown.openNotebook = shown.filePath.base
                 /\ shown.openNotebook = ExportPath(shown.kernelName)
                 /\ shown.openNotebook \notin last.env.unwritable
                 /\ shown.openNotebook \in DOMAIN files
                 /\ last.fileName = Null =>
                       files[shown.openNotebook] = JSONDocument(DocumentFor(shown.kernelName))

\* python3 and ir records are exported to a folder where the ir file cannot
\* be written: the python3 file is written and notified, then the save error
C25_Witness ==
    /\ Exported
    /\ last.env = Workspace(TRUE, {<<"output_", "r", ".ipynb">>})
    /\ Val(last.rData.cells) # <<>>
    /\ Len(last.notifications) = 1
    /\ last.notifications[1].kernelName = "python3"
    /\ last.errors = <<SaveError>>

\* the records selected by the export, in selection order
SelectedRecords ==
    IF last.indexes = Null THEN cards
    ELSE [i \in 1..Len(Val(last.indexes)) |-> cards[Val(last.indexes)[i]]]

\* the positions of the selection that hold a record of the kernel
PositionsOf(kernel) ==
    {i \in 1..Len(SelectedRecords) : SelectedRecords[i].kernel = Str(kernel)}

\* the k-th of these positions
NthPosition(kernel, k) ==
    CHOOSE i \in PositionsOf(kernel) :
        Cardinality({j \in PositionsOf(kernel) : j < i}) = k - 1

\* the cells of a document are the interchange data of the selected records
\* of the kernel, in selection order
CellsAreSelection(document, kernel) ==
    /\ Len(Val(document.cells)) = Cardinality(PositionsOf(kernel))
    /\ \A k \in 1..Len(Val(document.cells)) :
          Val(document.cells)[k] = SelectedRecords[NthPosition(kernel, k)].jupyterData

\* C26: the cells of each flavor's document are the interchange data of the
\* selected records of that flavor, in selection order and unchanged, so a
\* selected python3 or ir record is in exactly one document; the metadata
\* is the flavor's template, with nbformat 4 and nbformat_minor 2.
C26_DocumentsPartitionSelection ==
    Exported =>
        /\ CellsAreSelection(last.pythonData, "python3")
        /\ CellsAreSelection(last.rData, "ir")
        /\ last.pythonData.metadata = Obj(metadataPy)
        /\ last.rData.metadata = Obj(metadataR)
        /\ last.pythonData.nbformat = Num(4) /\ last.pythonData.nbformat_minor = Num(2)
        /\ last.rData.nbformat = Num(4) /\ last.rData.nbformat_minor = Num(2)

\* the second and then the first of two different python3 records are
\* selected, next to an ir record that is not
C26_Witness ==
    /\ Exported
    /\ Len(cards) = 3
    /\ last.indexes = Arr(<<2, 1>>)
    /\ cards[1].kernel = Str("python3") /\ cards[2].kernel = Str("python3")
    /\ cards[3].kernel = Str("ir")
    /\ cards[1].jupyterData # cards[2].jupyterData
    /\ Val(last.pythonData.cells) = <<cards[2].jupyterData, cards[1].jupyterData>>
    /\ Val(last.rData.cells) = <<>>

\* a message delivered since the previous finalization raised
RaisedSinceFinalization ==
    \E k \in 1..Len(last.pending) : last.pending[k].threw

\* the outputs the rules append for the message to an empty buffer
AppendedToEmpty(msg, kernelName) ==
    interpretOutput([last.before EXCEPT !.contentTmp = <<>>, !.jupyterData = EmptyObject,
                                        !.sourceTmp = <<>>],
                    msg, kernelName).ch.contentTmp

\* C27: after a message whose processing raised, a later message is still
\* classified by the first matching rule and appends what it appends to an
\* untouched buffer; the next idle produces exactly one record, with the
\* outputs appended since the previous finalization; and that finalization
\* leaves no output and no snapshot field for the records of later
\* executions.
C27_UsableAfterMalformed ==
    (Delivered /\ RaisedSinceFinalization) =>
        /\ last.rules \ {"jupyterData"} =
              (IF Classify(last.msg) = "other" THEN {} ELSE {Classify(last.msg)})
        /\ Len(last.cardReady) = (IF IsIdle(last.msg) THEN 1 ELSE 0)
        /\ ~IsIdle(last.msg) => last.appended = AppendedToEmpty(last.msg, last.kernel)
        /\ IsIdle(last.msg) =>
              /\ last.cardReady[1].outputs = Appended(last.pending)
              /\ contentTmp = <<>>
              /\ jupyterData = EmptyObject

\* an echo whose code is no string raises, a stream message follows, and
\* the idle finalizes a record with the stream output alone
C27_Witness ==
    /\ Finalized
    /\ Len(last.pending) = 2
    /\ last.pending[1].msg = MsgEchoBad /\ last.pending[1].threw
    /\ last.pending[2].msg = MsgStreamA
    /\ last.cardReady[1].outputs = <<Stdout(<<"a">>)>>
    /\ jupyterData = EmptyObject

\* C28: every record of the card collection has a kernel, and it is python3
\* or ir.
C28_KernelOfClosedSet ==
    \A i \in 1..Len(cards) :
        IsCard(cards[i]) => cards[i].kernel \in {Str("python3"), Str("ir")}

\* the raw outputs of a snapshot
RawOutputs(snapshot) ==
    IF Has(snapshot, "outputs") THEN Val(snapshot["outputs"]) ELSE <<>>

\* the content of a message tagged with its type, without transient field
TaggedContent(msg) ==
    [k \in ((DOMAIN msg.content) \cup {"output_type"}) \ {"transient"} |->
        IF k = "output_type" THEN Str(msg.msg_type) ELSE msg.content[k]]

\* C29: a message that is neither status nor echo adds exactly one raw
\* output to the snapshot, its content tagged with output_type and without
\* transient field, and its metadata becomes the snapshot's metadata; status
\* and echo messages add no raw output; and the buffer never holds more
\* visible outputs than raw outputs.
C29_OneRawOutputPerMessage ==
    Delivered =>
        /\ Classify(last.msg) \notin {"status", "echo"} =>
              /\ RawOutputs(jupyterData) =
                     Append(RawOutputs(last.before.jupyterData), TaggedContent(last.msg))
              /\ Has(jupyterData, "metadata")
              /\ jupyterData["metadata"] = last.msg.metadata
        /\ (Classify(last.msg) \in {"status", "echo"} /\ ~IsIdle(last.msg)) =>
              RawOutputs(jupyterData) = RawOutputs(last.before.jupyterData)
        /\ IsIdle(last.msg) => RawOutputs(jupyterData) = <<>>
        /\ Len(contentTmp) <= Len(RawOutputs(jupyterData))

\* C30: under addCustomCard and editCustomCard alone, every custom markdown
\* card of the collection has kernel python3 and the interchange data
\* {cell_type: markdown, metadata: {}, source: its sourceCode}; addCustomCard
\* appends the card at the end with the id the shared counter held, an id
\* no card of the collection has, and advances the counter; editCustomCard with an index outside the collection
\* changes nothing.
C30_CustomMarkdownCards ==
    [][/\ \A i \in 1..Len(cards') :
             cards'[i].isCustomMarkdown =>
                 /\ cards'[i].kernel = Str("python3")
                 /\ cards'[i].jupyterData =
                        [cell_type |-> Str("markdown"), metadata |-> MetaEmpty,
                         source |-> cards'[i].sourceCode]
       /\ last'.op = "addCustomCard" =>
             /\ Len(cards') = Len(cards) + 1
             /\ SubSeq(cards', 1, Len(cards)) = cards
             /\ cards'[Len(cards')].id = id
             /\ \A i \in 1..Len(cards) : cards[i].id # id
             /\ id' = id + 1
       /\ (last'.op = "editCustomCard" /\ last'.index \notin 1..Len(cards)) =>
             (cards' = cards /\ id' = id)]_vars

\* the markdown card at the first of two places was edited: its interchange
\* data hold the new source
C30_Witness ==
    /\ last.op = "editCustomCard"
    /\ last.index = 1
    /\ Len(cards) = 2
    /\ cards[1].isCustomMarkdown
    /\ cards[1].sourceCode = Str(<<"n">>)
    /\ cards[1].jupyterData["source"] = Str(<<"n">>)
    /\ cards[2].id = 1

\* the k-th smallest element of a set of positions
NthOf(positions, k) ==
    CHOOSE i \in positions : Cardinality({j \in positions : j < i}) = k - 1

\* the cards of cs at the positions outside removed, in their order
Remaining(cs, removed) ==
    LET kept == (1..Len(cs)) \ removed
    IN [k \in 1..Cardinality(kept) |-> cs[NthOf(kept, k)]]

\* the sequence deleted holds exactly the cards of cs at the indexes
HoldsCardsAt(deleted, cs, indexes) ==
    /\ Len(deleted) = Len(indexes)
    /\ \E p \in [1..Len(indexes) -> 1..Len(indexes)] :
          /\ \A a, b \in 1..Len(indexes) : a # b => p[a] # p[b]
          /\ \A k \in 1..Len(indexes) : deleted[k] = cs[indexes[p[k]]]

\* C31: deleteSelectedCards with distinct valid indexes, in any order,
\* removes exactly the cards that were at these indexes, keeps the order of
\* the other cards, and stores exactly the removed cards in lastDeletedCards.
C31_DeletesTheSelectedCards ==
    [][(/\ last'.op = "deleteSelectedCards"
        /\ \A k \in 1..Len(last'.indexes) : last'.indexes[k] \in 1..Len(cards))
       => /\ cards' = Remaining(cards, {last'.indexes[k] : k \in 1..Len(last'.indexes)})
          /\ HoldsCardsAt(lastDeletedCards', cards, last'.indexes)]_vars

\* the number of entries of cs equal to c
CountOf(cs, c) == Cardinality({i \in 1..Len(cs) : cs[i] = c})

\* C32: an undo right after deleteCard or deleteSelectedCards leaves in the
\* collection the cards that were there before the deletion, each as often
\* as before and no undefined entry, and leaves lastDeletedCards empty.
C32_UndoRestoresDeletion ==
    [][(/\ last.op \in {"deleteCard", "deleteSelectedCards"}
        /\ last'.op = "undoClicked")
       => /\ Len(cards') = Len(last.cardsBefore)
          /\ \A i \in 1..Len(cards') :
                /\ IsCard(cards'[i])
                /\ CountOf(cards', cards'[i]) = CountOf(last.cardsBefore, cards'[i])
          /\ lastDeletedCards' = <<>>]_vars

\* ------------------------------------------ activation and the start of Jupyter
MaxManagers == 2      \* JupyterManager instances created in one behaviour
MaxQuickPicks == 1    \* quick picks of onFullSetup open at a time
MaxListeners == 3     \* calls of initialisePanel in one behaviour

\* JupyterManager.timeout, in seconds
timeout == 20

\* a url the pattern matches, as new URL(...) parses it
Url(host, token) == [defined |-> TRUE, protocol |-> "http:", host |-> host, token |-> token]

\* A chunk of the output of the process: where the pattern matches in it
\* (start < 0: nowhere), the index after the match and the url matched.
Chunk(start, end, href) == [start |-> start, end |-> end, href |-> href]
Chunks == {Chunk(-1, 0, NoUrl), Chunk(1, 3, Url("localhost:8888", "a1"))}

\* urlPattern.exec(data) of a pattern with the g flag: the search starts at
\* lastIndex; a match moves lastIndex behind it, a failure puts it back to 0.
exec(li, data) ==
    IF data.start >= li
    THEN [match |-> data.href, lastIndex |-> data.end]
    ELSE [match |-> NoUrl, lastIndex |-> 0]

\* JupyterManager.extractJupyterInfos: the url and lastIndex afterwards
extractJupyterInfos(u, li, data) ==
    LET urlMatch == exec(li, data)
    IN [url |-> IF urlMatch.match.defined THEN urlMatch.match ELSE u,
        lastIndex |-> urlMatch.lastIndex]

\* the value the promise is resolved with
JupyterInfo(u) ==
    [kind |-> "info", baseUrl |-> <<u.protocol, "//", u.host, "/">>, token |-> u.token]
NoValue == [kind |-> "none"]
CouldNotExecute == [kind |-> "error", reason |-> "Jupyter could not be executed automatically"]

\* defineTimeout that gives up one poll early
defineTimeout_givesUpEarly(u, numTries) ==
    IF ~u.defined
    THEN IF numTries <= 1 THEN [settle |-> "rejected", value |-> CouldNotExecute]
         ELSE [settle |-> "pending", value |-> NoValue]
    ELSE [settle |-> "resolved", value |-> JupyterInfo(u)]

\* The callback defineTimeout hands to setTimeout, run with numTries tries
\* left: what becomes of the promise.
defineTimeout(u, numTries) ==
    IF ~u.defined
    THEN IF numTries = 0 THEN [settle |-> "rejected", value |-> CouldNotExecute]
         ELSE [settle |-> "pending", value |-> NoValue]
    ELSE [settle |-> "resolved", value |-> JupyterInfo(u)]

\* new JupyterManager() followed by getJupyterAddressAndToken(): the instance
\* with its promise pending and the first poll scheduled
JupyterManager(workspaceFolders) ==
    [workspaceSet |-> workspaceFolders, numTries |-> timeout, polls |-> 0,
     promise |-> "pending", value |-> NoValue]

\* WebviewController.show: the panel and what its frontend lists afterwards
show(p, l) == [panel |-> TRUE, listed |-> IF p THEN l ELSE <<>>]

\* initialisePanel on the state st of the pane; duplicateThrows tells whether
\* registerCommand raises for a command that is registered already.
initialisePanel(st, duplicateThrows) ==
    LET shown == show(st.panel, st.listed)
        listening == [st EXCEPT !.listeners = @ + 1, !.panel = shown.panel,
                                !.listed = shown.listed]
    IN IF st.commands > 0 /\ duplicateThrows THEN listening
       ELSE [listening EXCEPT !.commands = @ + 1, !.panelInitialised = TRUE]

PaneState == [panelInitialised |-> panelInitialised, panel |-> panel, listed |-> listed,
              listeners |-> listeners, commands |-> commands]

SetPaneState(st) ==
    /\ panelInitialised' = st.panelInitialised
    /\ panel' = st.panel
    /\ listed' = st.listed
    /\ listeners' = st.listeners
    /\ commands' = st.commands

collection == <<statics, cards, prompts, installs, files, exported, delivered, requests,
                lastDeletedCards, log>>

\* initialiseJupyterLocally(initialisePanel, localJupyter): with Jupyter in
\* the path a JupyterManager is created and its promise awaited, otherwise
\* the user is asked to install it; the value of the parameter is returned.
InitialiseJupyterLocally(inPath, workspaceFolders) ==
    /\ inPath => Len(managers) < MaxManagers
    /\ managers' = IF inPath THEN Append(managers, JupyterManager(workspaceFolders))
                   ELSE managers
    /\ processes' = IF inPath THEN processes + 1 ELSE processes
    /\ timers' = IF inPath THEN Append(timers, Len(managers) + 1) ELSE timers
    /\ localJupyter' = localJupyter
    /\ UNCHANGED <<panelInitialised, panel, listed, listeners, commands, url, lastIndex>>

\* initialisePanel called from a handler
InitialisePanel(duplicateThrows) ==
    /\ listeners < MaxListeners
    /\ SetPaneState(initialisePanel(PaneState, duplicateThrows))
    /\ UNCHANGED <<localJupyter, managers, processes, timers, url, lastIndex>>

\* userInteraction.onShowPane
ShowPane(remoteKernel, inPath, workspaceFolders, duplicateThrows) ==
    /\ IF ~panelInitialised
       THEN /\ IF remoteKernel THEN InitialisePanel(duplicateThrows)
               ELSE InitialiseJupyterLocally(inPath, workspaceFolders)
            /\ UNCHANGED <<statics, cards>>
       ELSE /\ \E shown \in {show(panel, listed)} :
                  /\ panel' = shown.panel
                  /\ listed' = shown.listed
            /\ \E r \in {resetState(CH)} :
                  /\ SetStatics(r.ch)
                  /\ cards' = r.cards
            /\ UNCHANGED <<panelInitialised, localJupyter, managers, processes, timers,
                           url, lastIndex, listeners, commands>>
    /\ last' = [op |-> "showPane"]
    /\ UNCHANGED <<quickPicks, prompts, installs, files, exported, delivered, requests,
                   lastDeletedCards, log>>

\* userInteraction.onFullSetup: the quick pick is shown
FullSetup ==
    /\ ~panelInitialised
    /\ quickPicks < MaxQuickPicks
    /\ quickPicks' = quickPicks + 1
    /\ last' = [op |-> "fullSetup"]
    /\ UNCHANGED <<collection, panelInitialised, localJupyter, panel, listed, managers,
                   processes, timers, url, lastIndex, listeners, commands>>

Choices == {"Create a new notebook", "Enter details manually", "running", "dismissed"}

\* the then-callback of showQuickPick in onFullSetup
QuickPicked(choice, inPath, workspaceFolders, duplicateThrows) ==
    /\ quickPicks > 0
    /\ quickPicks' = quickPicks - 1
    /\ IF choice = "Create a new notebook"
       THEN InitialiseJupyterLocally(inPath, workspaceFolders)
       ELSE IF choice = "dismissed"
       THEN UNCHANGED <<panelInitialised, localJupyter, panel, listed, managers,
                        processes, timers, url, lastIndex, listeners, commands>>
       ELSE InitialisePanel(duplicateThrows)
    /\ last' = [op |-> "quickPicked"]
    /\ UNCHANGED collection

\* A data event of the stdout of a process spawned, or of its stderr while
\* the listeners are attached: both call extractJupyterInfos.
Data(data) ==
    /\ processes > 0
    /\ \E r \in {extractJupyterInfos(url, lastIndex, data)} :
          /\ url' = r.url
          /\ lastIndex' = r.lastIndex
    /\ last' = [op |-> "data"]
    /\ UNCHANGED <<collection, panelInitialised, localJupyter, panel, listed, quickPicks,
                   managers, processes, timers, listeners, commands>>

\* One poll, of the manager whose timer is due first: the callback of
\* setTimeout in defineTimeout and, when it settles the promise, the then or
\* catch callback of initialiseJupyterLocally. The assignment
\* localJupyter = true of the then callback is to the parameter of
\* initialiseJupyterLocally.
Poll(m, duplicateThrows) ==
    /\ timers # <<>>
    /\ m = Head(timers)
    /\ \E r \in {defineTimeout(url, managers[m].numTries)} :
          /\ managers' = [managers EXCEPT
                            ![m].promise = r.settle,
                            ![m].value = r.value,
                            ![m].polls = @ + 1,
                            ![m].numTries = IF r.settle = "pending" THEN @ - 1 ELSE @]
          /\ timers' = IF r.settle = "pending" THEN Append(Tail(timers), m)
                        ELSE Tail(timers)
          /\ IF r.settle = "resolved"
             THEN SetPaneState(initialisePanel(PaneState, duplicateThrows))
             ELSE UNCHANGED <<panelInitialised, panel, listed, listeners, commands>>
    /\ last' = [op |-> "poll"]
    /\ UNCHANGED <<collection, localJupyter, quickPicks, processes, url, lastIndex>>

\* the user closes the panel: the onDidDispose callback
PanelDisposed ==
    /\ panel
    /\ panel' = FALSE
    /\ listed' = <<>>
    /\ last' = [op |-> "disposed"]
    /\ UNCHANGED <<collection, panelInitialised, localJupyter, quickPicks, managers,
                   processes, timers, url, lastIndex, listeners, commands>>

\* userInteraction.onNewCard fires: every listener executes the code
NewCard ==
    /\ last' = [op |-> "newCard", executed |-> listeners]
    /\ UNCHANGED <<collection, activation>>

\* The kernel reports idle for code a listener had executed: the card made
\* is added to the collection and posted to the panel, if there is one.
CardReady(kernelName) ==
    /\ listeners > 0
    /\ Len(cards) < MaxCollection
    /\ id < MaxCollectionId
    /\ onIOPub(MsgIdle, kernelName)
    /\ listed' = IF panel
                 THEN listed \o [i \in 1..Len(last'.cardReady) |-> last'.cardReady[i].id]
                 ELSE listed
    /\ UNCHANGED <<requests, panelInitialised, localJupyter, panel, quickPicks, managers,
                   processes, timers, url, lastIndex, listeners, commands>>

\* the start of Jupyter under the show-pane and full-setup commands
NextActivation ==
    \/ \E remoteKernel, inPath, workspaceFolders, duplicateThrows \in BOOLEAN :
          ShowPane(remoteKernel, inPath, workspaceFolders, duplicateThrows)
    \/ FullSetup
    \/ \E choice \in Choices, inPath, workspaceFolders, duplicateThrows \in BOOLEAN :
          QuickPicked(choice, inPath, workspaceFolders, duplicateThrows)
    \/ \E data \in Chunks : Data(data)
    \/ \E m \in 1..MaxManagers, duplicateThrows \in BOOLEAN : Poll(m, duplicateThrows)
    \/ NewCard

SpecActivation == Init /\ [][NextActivation]_vars

\* Jupyter started locally: the processes, their output and the polls. The
\* callback of a timer that setTimeout has scheduled is run in the end.
NextJupyter ==
    \/ \E inPath, workspaceFolders, duplicateThrows \in BOOLEAN :
          ShowPane(FALSE, inPath, workspaceFolders, duplicateThrows)
    \/ \E data \in Chunks : Data(data)
    \/ \E m \in 1..MaxManagers, duplicateThrows \in BOOLEAN : Poll(m, duplicateThrows)

SpecJupyter ==
    /\ Init
    /\ [][NextJupyter]_vars
    /\ WF_vars(\E m \in 1..MaxManagers, duplicateThrows \in BOOLEAN : Poll(m, duplicateThrows))

\* the selections of one or two of the cards the panel lists, by their
\* position in its list
ListedSelections ==
    {Arr(<<i>>) : i \in 1..Len(listed)}
        \cup {Arr(<<p[1], p[2]>>) :
                 p \in {q \in (1..Len(listed)) \X (1..Len(listed)) : q[1] # q[2]}}

\* the pane of a remote kernel: shown, filled by the kernel, closed, shown
\* again, and the exports asked from the cards it lists
NextPane ==
    \/ \E duplicateThrows \in BOOLEAN : ShowPane(TRUE, FALSE, FALSE, duplicateThrows)
    \/ PanelDisposed
    \/ NewCard
    \/ \E kernelName \in Kernels : CardReady(kernelName)
    \/ \E env \in Workspaces, indexes \in ListedSelections :
          panel /\ JupyterExport(env, indexes)
    \/ \E env \in Workspaces, index \in 1..Len(listed) :
          panel /\ OpenInBrowser(env, index)

SpecPane == Init /\ [][NextPane]_vars

\* C33: a show-pane command issued while the panel exists leaves the backend
\* collection and the id counter as they are, and the backend collection is
\* never empty while the open panel lists cards.
C33_ResetOnlyAfterClose ==
    /\ [][(last'.op = "showPane" /\ panel) => (cards' = cards /\ id' = id)]_vars
    /\ [](panel /\ listed # <<>> => cards # <<>>)

\* C34: once a manager created with a workspace folder open has its promise
\* resolved, localJupyter is true.
C34_LocalJupyterSet ==
    \A m \in 1..Len(managers) :
        (managers[m].workspaceSet /\ managers[m].promise = "resolved") => localJupyter

\* the step is a poll of the manager m
Polled(m) == managers'[m].polls = managers[m].polls + 1

C36_InitialisedOnce ==
    /\ processes <= 1
    /\ listeners <= 1
    /\ commands <= 1
    /\ (last.op = "newCard" /\ panelInitialised) => last.executed = 1

\* C37: a document imported without failure yields, in order, one record
\* per record it was written from, with the sourceCode of that record.
C37_SourceRoundTrip ==
    (last.op = "import" /\ ~last.threw) =>
        /\ Len(last.cardReady) = Len(exported[last.path])
        /\ \A i \in 1..Len(last.cardReady) :
              last.cardReady[i].sourceCode = exported[last.path][i].sourceCode

\* C38: the import of a written document yields, in order, one record per
\* record the document was written from, with the outputs of that record:
\* the same kinds and payloads in the same order.
C38_OutputsRoundTrip ==
    last.op = "import" =>
        /\ ~last.threw
        /\ Len(last.cardReady) = Len(exported[last.path])
        /\ \A i \in 1..Len(last.cardReady) :
              last.cardReady[i].outputs = exported[last.path][i].outputs

\* C39: no export request, from the export button or from open-in-browser,
\* ends in an exception that nothing handles.
C39_ExportNeverRaises ==
    last.op \notin {"exportToJupyter raised", "getCardId raised"}

\* C40: an idle status runs the card-ready handler, which adds the record to
\* the collection, and then the status handler with 'idle'; any other status
\* with a string state runs the status handler once with that state, and
\* nothing else.
C40_CardBeforeStatus ==
    (Delivered /\ Has(last.msg.content, "execution_state")) =>
        LET status == last.msg.content["execution_state"]
            n == Len(cards)
        IN IF IsIdle(last.msg)
           THEN /\ last.handled =
                      <<[handler |-> "onCardReady", id |-> last.cardReady[1].id, cards |-> n],
                        [handler |-> "onStatusChanged", status |-> "idle", cards |-> n]>>
                /\ cards[n].id = last.cardReady[1].id
           ELSE IF TypeOf(status) = "string"
           THEN last.handled =
                    <<[handler |-> "onStatusChanged", status |-> Val(status), cards |-> n]>>
           ELSE last.handled = <<>>

\* an idle was delivered to a collection that held a card already
C40_Witness ==
    /\ Delivered
    /\ IsIdle(last.msg)
    /\ Len(cards) = 2
    /\ Len(last.handled) = 2

====
